---- MODULE Spec2Model ----
(***************************************************************************)
(* Task lifecycle and review engine of the taskara tracker: the REST       *)
(* handlers of server/router/tasks.py over the local store, the Task       *)
(* aggregate of task.py and the pending-reviewers table of review.py.      *)
(***************************************************************************)
EXTENDS Integers, Sequences, FiniteSets, TLC

VARIABLES
    tasks,      \* the tasks table: task id -> stored task (reviews, requirements, episode inlined)
    pending,    \* the pending_reviewers table: a set of rows
    nextId,     \* the next task id the server hands out
    nextAction, \* the next action event id
    now,        \* time.time(), a logical clock
    resp,       \* the response to the last request, with the request it answers
    benchmarks, \* the benchmarks table: a set of rows
    inflight,   \* the requests the server has accepted, each with its handler's position and locals
    stream,     \* the stream events:action_recorded: the envelopes appended, in order
    keys,       \* where the encryption key comes from: ENCRYPTION_KEY and the key file
    heap        \* the objects of one process and the collections they refer to

\* What a handler taken as one step leaves alone: the benchmarks table, the
\* requests in flight, the stream, the sources of the encryption key and the
\* objects in process.
others == <<benchmarks, inflight, stream, keys, heap>>

vars == <<tasks, pending, nextId, nextAction, now, resp, others>>

----------------------------------------------------------------------------
(* Bounds of the model *)

MaxTasks == 1       \* tasks created in one run
MaxClock == 2       \* the last reading of the clock
MaxActions == 1     \* action events recorded in a run of the review engine
MaxEvents == 3      \* action events recorded in a run of the episode

----------------------------------------------------------------------------
(* Principals *)

Emails == {"tom@myspace.com", "ann@myspace.com"}
Orgs == {"acme"}
RoleNames == {"org:admin", "org:member", "org:agent", "org:viewer", "org:guest"}

\* V1UserProfile.organizations: mapping org id -> {role}; the empty mapping
\* stands for both None and {} (both falsy in the handlers' conditionals).
OrgMaps == UNION {[D -> RoleNames] : D \in SUBSET Orgs}
Principals == [email : Emails, organizations : OrgMaps]

NoUser == [email |-> "", organizations |-> <<>>]
None == "None"

Truthy(organizations) == DOMAIN organizations # {}

\* The role literals of the handlers.
ReadRoles == {"org:admin", "org:member", "org:agent", "org:viewer"}
MutateRoles == {"org:admin", "org:member", "org:agent"}
\* The delete set widened to the mutation set: what delete_task would allow had
\* it copied the literal of update_task.
DeleteRolesWithAgent == {"org:admin", "org:member", "org:agent"}
DeleteRoles == {"org:admin", "org:member"}

\* owners = [email] + [key for key, value in organizations.items() if role in roles]
\*              if organizations else []
\* Python parses this as ([email] + [...]) if organizations else [].
TaskOwners(user, roles) ==
    IF Truthy(user.organizations)
    THEN {user.email} \cup
         {o \in DOMAIN user.organizations : user.organizations[o] \in roles}
    ELSE {}

\* owners = [email] + (list(organizations.keys()) if organizations else [])
ListOwners(user) ==
    {user.email} \cup
    (IF Truthy(user.organizations) THEN DOMAIN user.organizations ELSE {})

GetTaskOwners(user) == TaskOwners(user, ReadRoles)
DeleteTaskOwners(user) == TaskOwners(user, DeleteRoles)
UpdateTaskOwners(user) == TaskOwners(user, MutateRoles)
ReviewTaskOwners(user) == TaskOwners(user, MutateRoles)
RecordActionOwners(user) == TaskOwners(user, MutateRoles)
GetActionsOwners(user) == TaskOwners(user, ReadRoles)
ActionReviewOwners(user) == TaskOwners(user, MutateRoles)
DeleteActionsOwners(user) == TaskOwners(user, MutateRoles)
HideActionOwners(user) == TaskOwners(user, MutateRoles)

----------------------------------------------------------------------------
(* The store *)

\* Task.find(id=task_id, owners=owners), Task.find_many_lite(owners=owners):
\* the rows whose owner_id is one of owners.
FindByOwners(owners) == {t \in DOMAIN tasks : tasks[t].owner_id \in owners}
Find(id, owners) == {t \in FindByOwners(owners) : t = id}

Stored(id) == id \in DOMAIN tasks

\* db.merge(task.to_record())
Merge(id, task) ==
    [t \in DOMAIN tasks \cup {id} |-> IF t = id THEN task ELSE tasks[t]]

\* db.delete(record)
Drop(id) == [t \in DOMAIN tasks \ {id} |-> tasks[t]]

OwnerOf(id) == IF Stored(id) THEN tasks[id].owner_id ELSE None

----------------------------------------------------------------------------
(* Responses *)

Response(op, user, id, code) ==
    [op |-> op, user |-> user, task_id |-> id, code |-> code,
     target_owner |-> OwnerOf(id),
     data |-> None, owners |-> {}, filter |-> <<>>,
     ids |-> {}, users |-> {}, agents |-> {}, events |-> <<>>,
     changed |-> FALSE]

----------------------------------------------------------------------------
(* Reviews and review requirements *)

ReviewerTypes == {"human", "agent"}

\* A Review: updated = 0 stands for None.
NewReview(reviewer, reviewer_type, approved, reason, time) ==
    [reviewer |-> reviewer, reviewer_type |-> reviewer_type,
     approved |-> approved, reason |-> reason, created |-> time, updated |-> 0]

\* The match with the reviewer type left out of the comparison.
ReviewMatchesReviewer(review, reviewer, reviewer_type) ==
    review.reviewer = reviewer

\* review.reviewer == data.reviewer and review.reviewer_type == reviewer_type
ReviewMatches(review, reviewer, reviewer_type) ==
    review.reviewer = reviewer /\ review.reviewer_type = reviewer_type

\* A save of the review list that holds the request's review alone.
ReplaceReviews(reviews, reviewer, reviewer_type, approved, reason, time) ==
    <<NewReview(reviewer, reviewer_type, approved, reason, time)>>
\* The loop of review_task over task._reviews and the append that follows it.
UpsertReview(reviews, reviewer, reviewer_type, approved, reason, time) ==
    IF \E i \in DOMAIN reviews : ReviewMatches(reviews[i], reviewer, reviewer_type)
    THEN [i \in DOMAIN reviews |->
            IF ReviewMatches(reviews[i], reviewer, reviewer_type)
            THEN [reviews[i] EXCEPT !.approved = approved, !.reason = reason,
                                    !.updated = time]
            ELSE reviews[i]]
    ELSE Append(reviews, NewReview(reviewer, reviewer_type, approved, reason, time))

\* Task._episode_satified
EpisodeSatisfied(task, user) ==
    \A i \in DOMAIN task.actions :
        \E j \in DOMAIN task.actions[i].reviews :
            task.actions[i].reviews[j].reviewer = user

\* Task._review_satisfied
ReviewSatisfied(task, user) ==
    \E j \in DOMAIN task.reviews : task.reviews[j].reviewer = user

\* total_approvals of update_pending_reviews: one count per entry of
\* [*req.agents, *req.users].
TotalApprovals(task, req) ==
    LET all_potential_reviewers == req.agents \o req.users
    IN  Cardinality({k \in DOMAIN all_potential_reviewers :
            /\ EpisodeSatisfied(task, all_potential_reviewers[k])
            /\ ReviewSatisfied(task, all_potential_reviewers[k])})

ReqSatisfied(task, req) == TotalApprovals(task, req) >= req.number_required

PendingRow(task_id, user, requirement_id) ==
    [task_id |-> task_id, user_id |-> user, agent_id |-> None,
     requirement_id |-> requirement_id]

MatchingRows(p, task_id, user, requirement_id) ==
    {r \in p : r.task_id = task_id /\ r.user_id = user
               /\ r.requirement_id = requirement_id}

\* ensure_pending_reviewer as a toggle: a row that exists is deleted instead
\* of being kept.
EnsurePendingReviewerTwice(p, task_id, user, requirement_id) ==
    IF MatchingRows(p, task_id, user, requirement_id) # {}
    THEN p \ MatchingRows(p, task_id, user, requirement_id)
    ELSE p \cup {PendingRow(task_id, user, requirement_id)}

\* PendingReviewers.ensure_pending_reviewer(task_id, user=user, requirement_id)
EnsurePendingReviewer(p, task_id, user, requirement_id) ==
    IF MatchingRows(p, task_id, user, requirement_id) # {}
    THEN p
    ELSE p \cup {PendingRow(task_id, user, requirement_id)}

\* PendingReviewers.remove_pending_reviewer(task_id, user=user, requirement_id)
RemovePendingReviewer(p, task_id, user, requirement_id) ==
    LET m == MatchingRows(p, task_id, user, requirement_id)
    IN  IF m = {} THEN p ELSE p \ {CHOOSE r \in m : TRUE}

RECURSIVE EnsureEach(_, _, _, _)
EnsureEach(p, task_id, names, requirement_id) ==
    IF names = <<>> THEN p
    ELSE EnsureEach(EnsurePendingReviewer(p, task_id, Head(names), requirement_id),
                    task_id, Tail(names), requirement_id)

RECURSIVE RemoveEach(_, _, _, _)
RemoveEach(p, task_id, names, requirement_id) ==
    IF names = <<>> THEN p
    ELSE RemoveEach(RemovePendingReviewer(p, task_id, Head(names), requirement_id),
                    task_id, Tail(names), requirement_id)

\* One pass of the loop of update_pending_reviews, for requirement req.
UpdateRequirement(p, id, task, req) ==
    IF ReqSatisfied(task, req)
    THEN RemoveEach(RemoveEach(p, id, req.users, req.id), id, req.agents, req.id)
    ELSE EnsureEach(EnsureEach(p, id, req.users, req.id), id, req.agents, req.id)

RECURSIVE UpdateFrom(_, _, _, _)
UpdateFrom(p, id, task, i) ==
    IF i > Len(task.review_requirements) THEN p
    ELSE UpdateFrom(UpdateRequirement(p, id, task, task.review_requirements[i]),
                    id, task, i + 1)

\* Task.update_pending_reviews
UpdatePendingReviews(p, id, task) == UpdateFrom(p, id, task, 1)

\* PendingReviewers.pending_reviewers(task_id)
PendingUsers(task_id) ==
    {r.user_id : r \in {x \in pending : x.task_id = task_id /\ x.user_id # None}}
PendingAgents(task_id) ==
    {r.agent_id : r \in {x \in pending : x.task_id = task_id /\ x.agent_id # None}}

\* PendingReviewers.pending_reviews(user=..., agent=...)
PendingReviewsOfUser(user) == {r.task_id : r \in {x \in pending : x.user_id = user}}
PendingReviewsOfAgent(agent) == {r.task_id : r \in {x \in pending : x.agent_id = agent}}

----------------------------------------------------------------------------
(* The episode of a task: the ordered action events *)

ActionNames == {"click", "mouse_move", "end"}

NewAction(id, name) ==
    [id |-> id, name |-> name, hidden |-> FALSE, reviews |-> <<>>,
     reviewables |-> <<>>]

ActionReview(reviewer, reviewer_type, approved, reason) ==
    [reviewer |-> reviewer, reviewer_type |-> reviewer_type,
     approved |-> approved, reason |-> reason]

\* Action reviews follow the upsert rule of task reviews.
UpsertActionReview(reviews, reviewer, reviewer_type, approved, reason) ==
    IF \E i \in DOMAIN reviews : ReviewMatches(reviews[i], reviewer, reviewer_type)
    THEN [i \in DOMAIN reviews |->
            IF ReviewMatches(reviews[i], reviewer, reviewer_type)
            THEN [reviews[i] EXCEPT !.approved = approved, !.reason = reason]
            ELSE reviews[i]]
    ELSE Append(reviews, ActionReview(reviewer, reviewer_type, approved, reason))

ReviewedAction(action, reviewer, reviewer_type, approved, reason) ==
    [action EXCEPT !.reviews =
        UpsertActionReview(@, reviewer, reviewer_type, approved, reason)]

ActionIds(actions) == {actions[i].id : i \in DOMAIN actions}
IndexOf(actions, action_id) ==
    CHOOSE i \in DOMAIN actions :
        /\ actions[i].id = action_id
        /\ \A j \in DOMAIN actions : actions[j].id = action_id => i <= j

\* Episode.approve_one / Episode.fail_one
ReviewOne(actions, action_id, reviewer, reviewer_type, approved, reason) ==
    [i \in DOMAIN actions |->
        IF actions[i].id = action_id
        THEN ReviewedAction(actions[i], reviewer, reviewer_type, approved, reason)
        ELSE actions[i]]

\* Episode.approve_all / Episode.fail_all
ReviewAll(actions, reviewer, reviewer_type, approved, with_hidden) ==
    [i \in DOMAIN actions |->
        IF with_hidden \/ ~actions[i].hidden
        THEN ReviewedAction(actions[i], reviewer, reviewer_type, approved, None)
        ELSE actions[i]]

\* Episode.approve_prior: the actions before action_id, and action_id itself
ReviewPrior(actions, action_id, reviewer, reviewer_type, with_hidden) ==
    [i \in DOMAIN actions |->
        IF i <= IndexOf(actions, action_id) /\ (with_hidden \/ ~actions[i].hidden)
        THEN ReviewedAction(actions[i], reviewer, reviewer_type, TRUE, None)
        ELSE actions[i]]

\* Episode.delete_action
DeleteAction(actions, action_id) ==
    SelectSeq(actions, LAMBDA a : a.id # action_id)

\* Episode.record_event
RecordEvent(actions, event) == Append(actions, event)

\* Task.record_action_event on a local task
RecordActionEvent(task, event) ==
    [task EXCEPT !.actions = RecordEvent(@, event)]

LastName(actions) == IF actions = <<>> THEN None ELSE actions[Len(actions)].name

\* record_action without its mouse_move rule: the end guard, then the append.
RecordedTaskKeepingMove(task, event) ==
    IF task.actions = <<>> \/ LastName(task.actions) # "end"
    THEN RecordActionEvent(task, event)
    ELSE task

\* The body of record_action once the task is found.
RecordedTask(task, event) ==
    IF task.actions = <<>> \/ LastName(task.actions) # "end"
    THEN LET kept == IF event.name = "end" /\ task.actions # <<>>
                        /\ LastName(task.actions) = "mouse_move"
                     THEN [task EXCEPT !.actions =
                            DeleteAction(@, task.actions[Len(task.actions)].id)]
                     ELSE task
         IN  RecordActionEvent(kept, event)
    ELSE task

----------------------------------------------------------------------------
(* Requests *)

\* The review requirements a create request carries.
Anonymous == "anonymous@agentsea.ai"
Requirement(n, users, agents) ==
    [number_required |-> n, users |-> users, agents |-> agents]

\* Task(...) of create_task: requirement i of task id has id <<id, i>>.
NewTask(id, owner_id, description, reqs) ==
    [owner_id |-> owner_id, description |-> description, status |-> "created",
     reviews |-> <<>>,
     review_requirements |->
        [i \in DOMAIN reqs |->
            [id |-> <<id, i>>, number_required |-> reqs[i].number_required,
             users |-> reqs[i].users, agents |-> reqs[i].agents]],
     actions |-> <<>>,
     max_steps |-> 30, assigned_to |-> None, assigned_type |-> None,
     error |-> None, output |-> None, completed |-> 0, labels |-> <<>>]

\* The collections that exist before any object does: the default arguments
\* labels = {} and prompts = [] of Task.__init__ and labels = {} of
\* TaskTemplate.__init__, evaluated once, when the function is defined.
Defaults == [r \in {"Task.labels", "Task.prompts", "TaskTemplate.labels"} |-> <<>>]

Init ==
    /\ tasks = <<>>
    /\ pending = {}
    /\ nextId = 1
    /\ nextAction = 1
    /\ now = 1
    /\ resp = Response("none", NoUser, 0, 0)
    /\ benchmarks = {}
    /\ inflight = {}
    /\ stream = <<>>
    /\ keys = [env |-> None, file |-> None]
    /\ heap = [cells |-> Defaults, objects |-> <<>>]

----------------------------------------------------------------------------
(* The handlers of server/router/tasks.py. Each is one transaction. *)

\* A request that fails, or a read: the store is left as it is.
Reply(r) ==
    /\ resp' = r
    /\ UNCHANGED <<tasks, pending, nextId, nextAction, now, others>>

\* task.save() and, where the handler runs it, the recompute that gives p.
Committed(op, user, id, data, owners, task, p) ==
    [Response(op, user, id, 200) EXCEPT
        !.data = data, !.owners = owners, !.ids = {id},
        !.changed = (Merge(id, task) # tasks \/ p # pending)]

Commit(op, user, id, data, owners, task, p) ==
    /\ tasks' = Merge(id, task)
    /\ pending' = p
    /\ resp' = Committed(op, user, id, data, owners, task, p)

\* A refusal that tells a stored task from a missing one: 403 for a task that
\* is stored, 404 for one that is not.
ForbiddenWhenStored(op, user, id, data, owners) ==
    [Response(op, user, id, IF Stored(id) THEN 403 ELSE 404) EXCEPT
        !.data = data, !.owners = owners]
\* raise HTTPException(status_code=404, detail=...): the detail is a literal of
\* the handler.
NotFoundResponse(op, user, id, data, owners) ==
    [Response(op, user, id, 404) EXCEPT !.data = data, !.owners = owners]

NotFound(op, user, id, data, owners) ==
    Reply(NotFoundResponse(op, user, id, data, owners))

\* What a handler leaves behind: the two tables and the response. Refusing
\* leaves the tables as they are, Committing is task.save() and the recompute
\* that gives p.
Refusing(response) == [tasks |-> tasks, pending |-> pending, resp |-> response]
Committing(op, user, id, data, owners, task, p) ==
    [tasks |-> Merge(id, task), pending |-> p,
     resp |-> Committed(op, user, id, data, owners, task, p)]
Apply(outcome) ==
    /\ tasks' = outcome.tasks
    /\ pending' = outcome.pending
    /\ resp' = outcome.resp

\* The status create_task answers for data.org.
CreateTaskCode(user, org) ==
    IF org = None THEN 200
    ELSE IF ~Truthy(user.organizations) THEN 500
    ELSE IF org \notin DOMAIN user.organizations THEN 500
    ELSE IF user.organizations[org] \in MutateRoles THEN 200
    ELSE 403

\* POST /v1/tasks
CreateTask(user, org, description, reqs) ==
    LET code == CreateTaskCode(user, org)
        owner_id == IF org = None THEN user.email ELSE org
        task == NewTask(nextId, owner_id, description, reqs)
    IN  IF code # 200
        THEN Reply(Response("create_task", user, 0, code))
        ELSE /\ Commit("create_task", user, nextId, None, {owner_id}, task,
                       UpdatePendingReviews(pending, nextId, task))
             /\ nextId' = nextId + 1
             /\ UNCHANGED <<nextAction, now, others>>

\* The status of the owners check of get_tasks.
GetTasksCode(user, filter) ==
    IF /\ filter # <<>>
       /\ Truthy(user.organizations)
       /\ \E i \in DOMAIN filter :
            /\ filter[i] # user.email
            /\ \/ filter[i] \notin DOMAIN user.organizations
               \/ user.organizations[filter[i]] \notin ReadRoles
    THEN 403
    ELSE 200

Range(f) == {f[i] : i \in DOMAIN f}

GetTasksOwners(user, filter) ==
    IF filter # <<>> THEN Range(filter) ELSE ListOwners(user)

\* GET /v1/tasks
GetTasks(user, filter) ==
    LET code == GetTasksCode(user, filter)
        owners == GetTasksOwners(user, filter)
    IN  Reply([Response("get_tasks", user, 0, code) EXCEPT
                !.filter = filter,
                !.owners = IF code = 200 THEN owners ELSE {},
                !.ids = IF code = 200 THEN FindByOwners(owners) ELSE {}])

\* The loop of search_tasks over data.owners: the first owner that is not
\* accepted ends it, with KeyError (500) or with 403.
RECURSIVE SearchScan(_, _)
SearchScan(user, filter) ==
    IF filter = <<>> THEN 200
    ELSE IF Head(filter) = user.email THEN SearchScan(user, Tail(filter))
    ELSE IF Head(filter) \notin DOMAIN user.organizations THEN 500
    ELSE IF user.organizations[Head(filter)] \in ReadRoles
         THEN SearchScan(user, Tail(filter))
    ELSE 403

SearchTasksCode(user, filter) ==
    IF filter # <<>> /\ Truthy(user.organizations)
    THEN SearchScan(user, filter)
    ELSE 200

SearchTasksOwners(user, filter) ==
    IF filter # <<>>
    THEN IF Truthy(user.organizations) THEN Range(filter) ELSE {}
    ELSE ListOwners(user)

\* POST /v1/tasks/search
SearchTasks(user, filter) ==
    LET code == SearchTasksCode(user, filter)
        owners == SearchTasksOwners(user, filter)
    IN  Reply([Response("search_tasks", user, 0, code) EXCEPT
                !.filter = filter,
                !.owners = IF code = 200 THEN owners ELSE {},
                !.ids = IF code = 200 THEN FindByOwners(owners) ELSE {}])

\* GET /v1/tasks/{task_id}
GetTaskResponse(user, id) ==
    LET owners == GetTaskOwners(user)
    IN  IF Find(id, owners) = {}
        THEN NotFoundResponse("get_task", user, id, None, owners)
        ELSE [Response("get_task", user, id, 200) EXCEPT
                !.owners = owners, !.ids = {id}]

GetTask(user, id) == Reply(GetTaskResponse(user, id))

\* DELETE /v1/tasks/{task_id}
DeleteTask(user, id) ==
    LET owners == DeleteTaskOwners(user)
    IN  IF Find(id, owners) = {}
        THEN NotFound("delete_task", user, id, None, owners)
        ELSE /\ tasks' = Drop(id)
             /\ resp' = [Response("delete_task", user, id, 200) EXCEPT
                            !.owners = owners, !.changed = TRUE]
             /\ UNCHANGED <<pending, nextId, nextAction, now, others>>

\* A string field of a request is truthy when it is neither None nor empty; a
\* number when it is neither None nor zero (0 stands for both).
TruthyText(value) == value # None /\ value # ""

\* task.labels[key] = value for every item of data.set_labels
SetLabels(labels, set_labels) ==
    [key \in DOMAIN labels \cup DOMAIN set_labels |->
        IF key \in DOMAIN set_labels THEN set_labels[key] ELSE labels[key]]

\* The fields of V1TaskUpdate the handler copies: description, status, error,
\* output, completed and set_labels when they are truthy, assigned_to and
\* assigned_type when they are not None. data.max_steps is not read.
UpdatedTask(task, data) ==
    [task EXCEPT
        !.description = IF TruthyText(data.description) THEN data.description ELSE @,
        !.status = IF TruthyText(data.status) THEN data.status ELSE @,
        !.assigned_to = IF data.assigned_to # None THEN data.assigned_to ELSE @,
        !.assigned_type = IF data.assigned_type # None THEN data.assigned_type ELSE @,
        !.error = IF TruthyText(data.error) THEN data.error ELSE @,
        !.output = IF TruthyText(data.output) THEN data.output ELSE @,
        !.completed = IF data.completed # 0 THEN data.completed ELSE @,
        !.labels = SetLabels(@, data.set_labels)]

\* PUT /v1/tasks/{task_id}
UpdateTaskResponse(user, id, data) ==
    LET owners == UpdateTaskOwners(user)
    IN  IF Find(id, owners) = {}
        THEN NotFoundResponse("update_task", user, id, data, owners)
        ELSE Committed("update_task", user, id, data, owners,
                       UpdatedTask(tasks[id], data), pending)

UpdateTask(user, id, data) ==
    /\ resp' = UpdateTaskResponse(user, id, data)
    /\ tasks' = IF Find(id, UpdateTaskOwners(user)) = {}
                THEN tasks
                ELSE Merge(id, UpdatedTask(tasks[id], data))
    /\ UNCHANGED <<pending, nextId, nextAction, now, others>>

\* reviewer_type = data.reviewer_type or "human"; reviewer = data.reviewer or
\* current_user.email
Reviewer(user, data) ==
    [data EXCEPT
        !.reviewer = IF @ = None THEN user.email ELSE @,
        !.reviewer_type = IF @ = None THEN "human" ELSE @]

\* PUT /v1/tasks/{task_id}/review
ReviewTaskOutcome(user, id, data) ==
    LET owners == ReviewTaskOwners(user)
        d == Reviewer(user, data)
    IN  IF Find(id, owners) = {}
        THEN Refusing(NotFoundResponse("review_task", user, id, d, owners))
        ELSE IF d.reviewer_type \notin ReviewerTypes
        THEN Refusing([Response("review_task", user, id, 400) EXCEPT
                        !.data = d, !.owners = owners])
        ELSE LET task == [tasks[id] EXCEPT !.reviews =
                            UpsertReview(@, d.reviewer, d.reviewer_type,
                                         d.approved, d.reason, now)]
             IN  Committing("review_task", user, id, d, owners, task,
                            UpdatePendingReviews(pending, id, task))

ReviewTask(user, id, data) ==
    /\ Apply(ReviewTaskOutcome(user, id, data))
    /\ UNCHANGED <<nextId, nextAction, now, others>>

\* GET /v1/pending_reviews
GetPendingReviews(user, agent_id) ==
    Reply([Response("get_pending_reviews", user, 0, 200) EXCEPT
            !.ids = IF agent_id # None
                    THEN PendingReviewsOfAgent(agent_id)
                    ELSE PendingReviewsOfUser(user.email)])

\* GET /v1/tasks/{task_id}/pending_reviewers
GetPendingApprovals(user, id) ==
    Reply([Response("get_pending_approvals", user, id, 200) EXCEPT
            !.users = PendingUsers(id), !.agents = PendingAgents(id)])

\* POST /v1/tasks/{task_id}/actions
RecordAction(user, id, name) ==
    LET owners == RecordActionOwners(user)
    IN  IF Find(id, owners) = {}
        THEN NotFound("record_action", user, id, name, owners)
        ELSE /\ Commit("record_action", user, id, name, owners,
                       RecordedTask(tasks[id], NewAction(nextAction, name)),
                       pending)
             /\ nextAction' = nextAction + 1
             /\ UNCHANGED <<nextId, now, others>>

\* task.record_action_event(event) on a Task held in process (no _remote)
LocalRecordActionEvent(id, name) ==
    /\ Stored(id)
    /\ tasks' = Merge(id, RecordActionEvent(tasks[id], NewAction(nextAction, name)))
    /\ resp' = [Response("record_action_event", NoUser, id, 0) EXCEPT
                    !.data = name, !.changed = TRUE]
    /\ nextAction' = nextAction + 1
    /\ UNCHANGED <<pending, nextId, now, others>>

\* GET /v1/tasks/{task_id}/actions
GetActions(user, id) ==
    LET owners == GetActionsOwners(user)
    IN  IF Find(id, owners) = {}
        THEN NotFound("get_actions", user, id, None, owners)
        ELSE Reply([Response("get_actions", user, id, 200) EXCEPT
                        !.owners = owners, !.ids = {id},
                        !.events = [i \in DOMAIN tasks[id].actions |->
                                        tasks[id].actions[i].id]])

\* The shape the approve/fail handlers share: find, default the reviewer,
\* check the reviewer type, review the episode, save, recompute.
ActionReviewOutcome(op, user, id, data, actions) ==
    LET owners == ActionReviewOwners(user)
        d == Reviewer(user, data)
    IN  IF Find(id, owners) = {}
        THEN Refusing(NotFoundResponse(op, user, id, d, owners))
        ELSE IF d.reviewer_type \notin ReviewerTypes
        THEN Refusing([Response(op, user, id, 400) EXCEPT
                        !.data = d, !.owners = owners])
        ELSE LET task == [tasks[id] EXCEPT !.actions = actions]
             IN  Committing(op, user, id, d, owners, task,
                            UpdatePendingReviews(pending, id, task))

ActionReviewHandler(op, user, id, data, actions) ==
    /\ Apply(ActionReviewOutcome(op, user, id, data, actions))
    /\ UNCHANGED <<nextId, nextAction, now, others>>

\* POST /v1/tasks/{task_id}/actions/{action_id}/approve
ApproveAction(user, id, action_id, data) ==
    LET d == Reviewer(user, data)
    IN  ActionReviewHandler("approve_action", user, id, data,
            IF Stored(id)
            THEN ReviewOne(tasks[id].actions, action_id, d.reviewer,
                           d.reviewer_type, TRUE, d.reason)
            ELSE <<>>)

\* POST /v1/tasks/{task_id}/actions/{action_id}/fail
FailAction(user, id, action_id, data) ==
    LET d == Reviewer(user, data)
    IN  ActionReviewHandler("fail_action", user, id, data,
            IF Stored(id)
            THEN ReviewOne(tasks[id].actions, action_id, d.reviewer,
                           d.reviewer_type, FALSE, d.reason)
            ELSE <<>>)

\* POST /v1/tasks/{task_id}/actions/{action_id}/approve_prior
ApprovePriorActions(user, id, action_id, data, approve_hidden) ==
    LET d == Reviewer(user, data)
    IN  ActionReviewHandler("approve_prior_actions", user, id, data,
            IF Stored(id)
            THEN ReviewPrior(tasks[id].actions, action_id, d.reviewer,
                             d.reviewer_type, approve_hidden)
            ELSE <<>>)

\* POST /v1/tasks/{task_id}/approve_actions
ApproveAllActions(user, id, data, approve_hidden) ==
    LET d == Reviewer(user, data)
    IN  ActionReviewHandler("approve_all_actions", user, id, data,
            IF Stored(id)
            THEN ReviewAll(tasks[id].actions, d.reviewer, d.reviewer_type,
                           TRUE, approve_hidden)
            ELSE <<>>)

\* POST /v1/tasks/{task_id}/fail_actions
FailAllActions(user, id, data, fail_hidden) ==
    LET d == Reviewer(user, data)
    IN  ActionReviewHandler("fail_all_actions", user, id, data,
            IF Stored(id)
            THEN ReviewAll(tasks[id].actions, d.reviewer, d.reviewer_type,
                           FALSE, fail_hidden)
            ELSE <<>>)

\* DELETE /v1/tasks/{task_id}/actions
DeleteAllActions(user, id) ==
    LET owners == DeleteActionsOwners(user)
    IN  IF Find(id, owners) = {}
        THEN NotFound("delete_all_actions", user, id, None, owners)
        ELSE LET task == [tasks[id] EXCEPT !.actions = <<>>]
             IN  /\ Commit("delete_all_actions", user, id, None, owners, task,
                           UpdatePendingReviews(pending, id, task))
                 /\ UNCHANGED <<nextId, nextAction, now, others>>

\* PUT /v1/tasks/{task_id}/actions/{action_id}/hide and .../unhide
ToggleHideAction(user, id, action_id, hide_action) ==
    LET owners == HideActionOwners(user)
    IN  IF Find(id, owners) = {}
        THEN NotFound("toggle_hide_action", user, id, None, owners)
        ELSE LET task == [tasks[id] EXCEPT !.actions =
                            [i \in DOMAIN @ |->
                                IF @[i].id = action_id
                                THEN [@[i] EXCEPT !.hidden = hide_action]
                                ELSE @[i]]]
             IN  /\ Commit("toggle_hide_action", user, id, None, owners, task,
                           pending)
                 /\ UNCHANGED <<nextId, nextAction, now, others>>

\* time.time() moves on between requests.
Tick ==
    /\ now' = now + 1
    /\ UNCHANGED <<tasks, pending, nextId, nextAction, resp, others>>

----------------------------------------------------------------------------
(* The requests the specifications draw from *)

Tom == "tom@myspace.com"
Ann == "ann@myspace.com"
TaskIds == 1..MaxTasks

ReviewData(reviewer, reviewer_type, approved, reason) ==
    [reviewer |-> reviewer, reviewer_type |-> reviewer_type,
     approved |-> approved, reason |-> reason]

\* V1TaskUpdate with every field left out: None, and 0 for a number left out.
EmptyUpdate ==
    [description |-> None, status |-> None, max_steps |-> 0, assigned_to |-> None,
     assigned_type |-> None, error |-> None, output |-> None, completed |-> 0,
     set_labels |-> <<>>]

UpdateData(description, status) ==
    [EmptyUpdate EXCEPT !.description = description, !.status = status]

\* The requirements of the runtime test: 5 parties pending at creation.
ExampleReqs ==
    <<Requirement(2, <<Anonymous>>, <<"agent1", "agent2">>),
      Requirement(1, <<Tom, Anonymous>>, <<"agent3">>)>>
SingleReqs == <<Requirement(1, <<Tom>>, <<>>)>>
\* A request may list a party twice: nothing in create_task removes it.
RepeatedReqs == <<Requirement(2, <<Tom, Tom>>, <<"agent1">>)>>
ReqPool == {ExampleReqs, SingleReqs, RepeatedReqs}

\* The owners filters of list and search requests.
Filters == {<<>>, <<Tom>>, <<Ann>>, <<"acme">>, <<Tom, "acme">>}

\* An administrator of acme: the principal of the review and episode runs.
Admin == [email |-> Tom, organizations |-> [o \in Orgs |-> "org:admin"]]

\* The (reviewer, reviewer_type) and (approved, reason) of review requests.
ReviewerPairs ==
    {<<None, None>>, <<None, "agent">>, <<"agent1", None>>, <<None, "robot">>}
Verdicts == {<<TRUE, None>>, <<FALSE, "wrong">>}

HasAction(id, action_id) ==
    Stored(id) /\ action_id \in ActionIds(tasks[id].actions)

----------------------------------------------------------------------------
(* Authorisation: every principal against tasks of every owner *)

Next ==
    \/ \E user \in Principals, org \in Orgs \cup {None} :
        /\ nextId <= MaxTasks
        /\ CreateTask(user, org, "d", SingleReqs)
    \/ \E user \in Principals, filter \in Filters : GetTasks(user, filter)
    \/ \E user \in Principals, filter \in Filters : SearchTasks(user, filter)
    \/ \E user \in Principals, id \in TaskIds : GetTask(user, id)
    \/ \E user \in Principals, id \in TaskIds : DeleteTask(user, id)
    \/ \E user \in Principals, id \in TaskIds :
        UpdateTask(user, id, UpdateData("e", None))
    \/ \E user \in Principals, id \in TaskIds :
        ReviewTask(user, id, ReviewData("agent1", None, TRUE, None))
    \/ \E user \in Principals, id \in TaskIds :
        /\ nextAction <= MaxActions
        /\ RecordAction(user, id, "click")
    \/ \E user \in Principals, id \in TaskIds : GetActions(user, id)
    \/ \E user \in Principals, id \in TaskIds : GetPendingApprovals(user, id)
    \/ \E user \in Principals : GetPendingReviews(user, None)

Spec == Init /\ [][Next]_vars

----------------------------------------------------------------------------
(* The review engine: one administrator, requirements of every shape *)

NextPending ==
    \/ \E reqs \in ReqPool :
        /\ nextId <= MaxTasks
        /\ CreateTask(Admin, None, "d", reqs)
    \/ \E id \in TaskIds, reviewer \in {None, "agent1"}, approved \in BOOLEAN :
        ReviewTask(Admin, id, ReviewData(reviewer, None, approved, None))
    \/ \E id \in TaskIds :
        UpdateTask(Admin, id, UpdateData(None, "in progress"))
    \/ \E id \in TaskIds :
        /\ nextAction <= MaxActions
        /\ RecordAction(Admin, id, "click")
    \/ \E id \in TaskIds, action_id \in 1..MaxActions :
        /\ HasAction(id, action_id)
        /\ \/ ApproveAction(Admin, id, action_id, ReviewData(None, None, TRUE, None))
           \/ FailAction(Admin, id, action_id, ReviewData(None, None, FALSE, None))
           \/ \E approve_hidden \in BOOLEAN :
                ApprovePriorActions(Admin, id, action_id,
                    ReviewData(None, None, TRUE, None), approve_hidden)
    \/ \E id \in TaskIds, with_hidden \in BOOLEAN :
        \/ ApproveAllActions(Admin, id, ReviewData(None, None, TRUE, None), with_hidden)
        \/ FailAllActions(Admin, id, ReviewData(None, None, FALSE, None), with_hidden)
    \/ \E id \in TaskIds : DeleteAllActions(Admin, id)
    \/ \E id \in TaskIds, action_id \in 1..MaxActions, hide_action \in BOOLEAN :
        /\ HasAction(id, action_id)
        /\ ToggleHideAction(Admin, id, action_id, hide_action)
    \/ \E id \in TaskIds : GetPendingApprovals(Admin, id)
    \/ \E agent_id \in {None, "agent1"} : GetPendingReviews(Admin, agent_id)

SpecPending == Init /\ [][NextPending]_vars

\* The recompute alone: the requests that change what it reads.
NextRecompute ==
    \/ \E reqs \in ReqPool :
        /\ nextId <= MaxTasks
        /\ CreateTask(Admin, None, "d", reqs)
    \/ \E id \in TaskIds, reviewer \in {None, "agent1"} :
        ReviewTask(Admin, id, ReviewData(reviewer, None, TRUE, None))
    \/ \E id \in TaskIds :
        /\ nextAction <= MaxActions
        /\ RecordAction(Admin, id, "click")
    \/ \E id \in TaskIds :
        ApproveAllActions(Admin, id, ReviewData(None, None, TRUE, None), FALSE)

SpecRecompute == Init /\ [][NextRecompute]_vars

----------------------------------------------------------------------------
(* Task reviews: every reviewer pair, with the clock moving *)

NextUpsert ==
    \/ /\ nextId <= MaxTasks
       /\ CreateTask(Admin, None, "d", SingleReqs)
    \/ \E id \in TaskIds, pair \in ReviewerPairs, verdict \in Verdicts :
        ReviewTask(Admin, id, ReviewData(pair[1], pair[2], verdict[1], verdict[2]))
    \/ now < MaxClock /\ Tick

SpecUpsert == Init /\ [][NextUpsert]_vars

----------------------------------------------------------------------------
(* The episode: events recorded through the server and in process *)

NextEpisode ==
    \/ /\ nextId <= MaxTasks
       /\ CreateTask(Admin, None, "d", SingleReqs)
    \/ \E id \in TaskIds, name \in ActionNames :
        /\ nextAction <= MaxEvents
        /\ RecordAction(Admin, id, name)
    \/ \E id \in TaskIds, name \in ActionNames :
        /\ nextAction <= MaxEvents
        /\ LocalRecordActionEvent(id, name)
    \/ \E id \in TaskIds : GetActions(Admin, id)

SpecEpisode == Init /\ [][NextEpisode]_vars

----------------------------------------------------------------------------
(* The role matrix: a principal of every role against the organisation's tasks *)

Members == [email : {Ann}, organizations : OrgMaps]

NextRoles ==
    \/ /\ nextId <= MaxTasks
       /\ CreateTask(Admin, "acme", "d", SingleReqs)
    \/ \E user \in Members, id \in TaskIds : GetTask(user, id)
    \/ \E user \in Members, id \in TaskIds : GetActions(user, id)
    \/ \E user \in Members, id \in TaskIds :
        UpdateTask(user, id, UpdateData("e", None))
    \/ \E user \in Members, id \in TaskIds :
        ReviewTask(user, id, ReviewData(None, None, TRUE, None))
    \/ \E user \in Members, id \in TaskIds :
        /\ nextAction <= MaxActions
        /\ RecordAction(user, id, "click")
    \/ \E user \in Members, id \in TaskIds : DeleteTask(user, id)

SpecRoles == Init /\ [][NextRoles]_vars

----------------------------------------------------------------------------
(* Updates: patches that name one field, and the patch of the runtime test *)

Label(key, value) == [k \in {key} |-> value]

Patches ==
    {[EmptyUpdate EXCEPT !.description = "Search for german ducks"],
     [EmptyUpdate EXCEPT !.status = "in progress"],
     [EmptyUpdate EXCEPT !.max_steps = 5],
     [EmptyUpdate EXCEPT !.assigned_to = Ann],
     [EmptyUpdate EXCEPT !.error = "boom"],
     [EmptyUpdate EXCEPT !.output = "ducks"],
     [EmptyUpdate EXCEPT !.completed = 7],
     [EmptyUpdate EXCEPT !.set_labels = Label("test", "true")],
     [EmptyUpdate EXCEPT !.set_labels = Label("test", "false")],
     [EmptyUpdate EXCEPT !.description = "Search for german ducks",
                         !.status = "in progress",
                         !.set_labels = Label("test_set", "true")]}

NextPatch ==
    \/ /\ nextId <= MaxTasks
       /\ CreateTask(Admin, None, "d", SingleReqs)
    \/ \E id \in TaskIds, data \in Patches : UpdateTask(Admin, id, data)
    \/ \E id \in TaskIds : GetTask(Admin, id)

SpecPatch == Init /\ [][NextPatch]_vars

----------------------------------------------------------------------------
(* The Task object in process: construction, save, update *)

\* to_v1: episode_id = None when the task has no episode.
NoEpisode == 0

\* The version a task carries before generate_version_hash has run.
NoVersion == <<>>

\* The attributes Task.__init__ assigns before it derives the version.
TaskObject(owner_id, description, remote) ==
    [owner_id |-> owner_id, description |-> description, status |-> "defined",
     reviews |-> <<>>, review_requirements |-> <<>>, actions |-> <<>>,
     remote |-> remote, threads |-> <<>>, episode_id |-> NoEpisode,
     version |-> NoVersion, auth_token |-> None]

\* Task.to_v1: the projection of the object, its current version included.
ToV1(task) ==
    [description |-> IF task.description = None THEN "" ELSE task.description,
     owner_id |-> task.owner_id, status |-> task.status,
     reviews |-> task.reviews, review_requirements |-> task.review_requirements,
     threads |-> task.threads, remote |-> task.remote,
     episode_id |-> task.episode_id, version |-> task.version,
     auth_token |-> task.auth_token]

\* Task.generate_version_hash: sha256 of the key-sorted JSON of to_v1(). The
\* digest of a document is modelled by the document itself, in a 1-tuple:
\* equal digests iff equal documents.
GenerateVersionHash(task) == <<ToV1(task)>>

\* The number of digests nested in a version.
RECURSIVE VersionDepth(_)
VersionDepth(version) ==
    IF version = NoVersion THEN 0 ELSE 1 + VersionDepth(version[1].version)

\* Task.save of a local task: the new version is derived first, then the
\* episode is created when the task has none, then the record is merged.
Save(id, task) ==
    [task EXCEPT !.version = GenerateVersionHash(task),
                 !.episode_id = IF @ = NoEpisode THEN id ELSE @]

\* How a call on a Task object ends: it returns, or it raises.
Returned == 0
Raised == 1

\* not self._description: None and the empty string are both falsy.
Falsy(value) == value = None \/ value = ""

\* RoleThread(owner_id, public, name, metadata): one thread of a task.
RoleThread(id, name) == [id |-> <<id, name>>, name |-> name]

ThreadNamed(task, name) ==
    \E i \in DOMAIN task.threads : task.threads[i].name = name

\* Task.create_thread of a local task that has no thread of that name.
CreateThread(id, task, name) ==
    Save(id, [task EXCEPT !.threads = Append(@, RoleThread(id, name))])

\* Task.ensure_thread of a local task.
EnsureThread(id, task, name) ==
    IF ThreadNamed(task, name) THEN task ELSE CreateThread(id, task, name)

\* Task.remove_thread of a local task.
RemoveThread(id, task, thread_id) ==
    Save(id, [task EXCEPT !.threads = SelectSeq(@, LAMBDA t : t.id # thread_id)])

\* The outcome of a call on the Task object of a stored task.
Outcome(op, id, code, data) ==
    [Response(op, NoUser, id, code) EXCEPT !.data = data]

\* A call that ends with the object saved.
Saved(op, id, data, task) ==
    /\ tasks' = Merge(id, task)
    /\ pending' = UpdatePendingReviews(pending, id, task)
    /\ resp' = [Outcome(op, id, Returned, data) EXCEPT
                    !.changed = (Merge(id, task) # tasks)]
    /\ UNCHANGED <<nextAction, now, others>>

\* Task(description=..., owner_id=...): the version is derived, the
\* description is checked, the task is saved, the feed thread is ensured and
\* the pending reviewers are recomputed.
TaskInit(owner_id, description) ==
    LET object == TaskObject(owner_id, description, None)
        versioned == [object EXCEPT !.version = GenerateVersionHash(object)]
    IN  IF Falsy(description)
        THEN Reply(Outcome("task_init", 0, Raised, description))
        ELSE /\ Saved("task_init", nextId, description,
                      EnsureThread(nextId, Save(nextId, versioned), "feed"))
             /\ nextId' = nextId + 1

\* task.save()
TaskSave(id) ==
    /\ Stored(id)
    /\ Saved("save", id, None, Save(id, tasks[id]))
    /\ UNCHANGED <<nextId, others>>

\* task.update(description=value): setattr, then save.
TaskUpdate(id, value) ==
    /\ Stored(id)
    /\ Saved("update", id, value, Save(id, [tasks[id] EXCEPT !.description = value]))
    /\ UNCHANGED <<nextId, others>>

\* task.create_thread(name)
TaskCreateThread(id, name) ==
    /\ Stored(id)
    /\ IF ThreadNamed(tasks[id], name)
       THEN Reply(Outcome("create_thread", id, Raised, name))
       ELSE /\ Saved("create_thread", id, name, CreateThread(id, tasks[id], name))
            /\ UNCHANGED <<nextId, others>>

\* task.ensure_thread(name)
TaskEnsureThread(id, name) ==
    /\ Stored(id)
    /\ IF ThreadNamed(tasks[id], name)
       THEN Reply(Outcome("ensure_thread", id, Returned, name))
       ELSE /\ Saved("ensure_thread", id, name, EnsureThread(id, tasks[id], name))
            /\ UNCHANGED <<nextId, others>>

\* task.remove_thread(thread_id)
TaskRemoveThread(id, thread_id) ==
    /\ Stored(id)
    /\ Saved("remove_thread", id, thread_id, RemoveThread(id, tasks[id], thread_id))
    /\ UNCHANGED <<nextId, others>>

\* The values a caller gives a description, and the names it gives threads.
Descriptions == {None, "", "d", "e"}
ThreadNames == {"feed", "Prompt"}

\* Saves left to a task in a run: each save nests one more digest.
MaxVersions == 5
CanSave(id) == Stored(id) /\ VersionDepth(tasks[id].version) < MaxVersions

NextLocal ==
    \/ \E description \in Descriptions :
        /\ nextId <= MaxTasks
        /\ TaskInit(Tom, description)
    \/ \E id \in TaskIds : CanSave(id) /\ TaskSave(id)
    \/ \E id \in TaskIds, value \in Descriptions :
        CanSave(id) /\ TaskUpdate(id, value)
    \/ \E id \in TaskIds, name \in ThreadNames :
        CanSave(id) /\ TaskCreateThread(id, name)
    \/ \E id \in TaskIds, name \in ThreadNames :
        CanSave(id) /\ TaskEnsureThread(id, name)
    \/ \E id \in TaskIds, name \in ThreadNames :
        CanSave(id) /\ TaskRemoveThread(id, <<id, name>>)

SpecLocal == Init /\ [][NextLocal]_vars

----------------------------------------------------------------------------
(* Task.copy *)

\* copy.deepcopy(self), then the fields copy() resets: the id, the status and
\* the version (created, started and completed are outside the model). The
\* episode and the threads are the deep copies of the original's: they keep
\* the original's ids and content.
Copy(new_id, task) ==
    LET reset == [task EXCEPT !.status = "defined"]
    IN  [id |-> new_id,
         task |-> [reset EXCEPT !.version = GenerateVersionHash(reset)]]

\* task.copy(): the copy is returned, nothing is stored.
TaskCopy(id) ==
    /\ Stored(id)
    /\ Reply(Outcome("copy", id, Returned, Copy(nextId, tasks[id])))

NextCopy ==
    \/ \E description \in Descriptions :
        /\ nextId <= MaxTasks
        /\ TaskInit(Tom, description)
    \/ \E id \in TaskIds, value \in Descriptions :
        CanSave(id) /\ TaskUpdate(id, value)
    \/ \E id \in TaskIds, name \in ActionNames :
        /\ nextAction <= MaxActions
        /\ LocalRecordActionEvent(id, name)
    \/ \E id \in TaskIds : TaskCopy(id)

SpecCopy == Init /\ [][NextCopy]_vars

----------------------------------------------------------------------------
(* Task.save of a remote task: the store is the remote server's *)

\* The address a remote task carries in _remote.
Hub == "https://hub"

\* What the GET probe of save meets: the task, a 404, or any other failure
\* (a 5xx, no connection). _remote_request raises on the last two.
ProbeAnswers(id) ==
    (IF Stored(id) THEN {"found"} ELSE {"not found"}) \cup {"failed"}

\* existing_task after the try block: the body of the answer when the probe
\* returned, None (here the empty sequence) when it raised.
ExistingTask(id, answer) == IF answer = "found" THEN <<tasks[id]>> ELSE <<>>

Request(method, path) == [method |-> method, path |-> path]

\* save with the version test as a guard: a version that differs from the
\* remote's ends the save after the probe.
SaveRequestsGuardingVersion(id, existing_task, version) ==
    <<Request("GET", <<"/v1/tasks", id>>)>> \o
    (IF existing_task # <<>> /\ existing_task[1].version # version THEN <<>>
     ELSE IF existing_task # <<>>
     THEN <<Request("PUT", <<"/v1/tasks", id>>)>>
     ELSE <<Request("POST", <<"/v1/tasks">>)>>)

\* The requests one save() of a remote task issues, in order: the version
\* test passes in both of its branches.
SaveRequests(id, existing_task, version) ==
    <<Request("GET", <<"/v1/tasks", id>>)>> \o
    (IF existing_task # <<>>
     THEN <<Request("PUT", <<"/v1/tasks", id>>)>>
     ELSE <<Request("POST", <<"/v1/tasks">>)>>)

\* The row the server holds once it has served the write of the save: PUT
\* runs update_task on the row, POST runs create_task with the object's id.
Served(id, request, object) ==
    IF request.method = "PUT"
    THEN Save(id, [tasks[id] EXCEPT
            !.description = IF TruthyText(object.description)
                            THEN object.description ELSE @,
            !.status = object.status])
    ELSE LET created == TaskObject(object.owner_id, object.description, None)
             versioned == [created EXCEPT !.version = GenerateVersionHash(created)]
         IN  EnsureThread(id, Save(id, versioned), "feed")

\* task.save() of a remote task object that holds `description` and the
\* version `version`; `answer` is what the probe meets and `served` tells
\* whether the server serves the write or fails it.
TaskSaveRemote(id, description, version, answer, served) ==
    LET object == [TaskObject(Tom, description, Hub) EXCEPT !.version = version]
        existing_task == ExistingTask(id, answer)
        requests == SaveRequests(id, existing_task, version)
        write == requests[Len(requests)]
        outcome == [answer |-> answer, version |-> version,
                    remote_version |-> IF existing_task = <<>> THEN NoVersion
                                       ELSE existing_task[1].version]
    IN  /\ answer \in ProbeAnswers(id)
        /\ tasks' = IF served /\ write.method # "GET"
                     THEN Merge(id, Served(id, write, object))
                     ELSE tasks
        /\ resp' = [Outcome("save_remote", id,
                             IF served THEN Returned ELSE Raised, outcome)
                        EXCEPT !.events = requests, !.changed = (tasks' # tasks)]
        /\ UNCHANGED <<pending, nextId, nextAction, now, others>>

\* The versions a remote task object may hold when it is saved: none, the
\* digest of an older document, or the version the remote holds.
ObjectVersions(id) ==
    {NoVersion, GenerateVersionHash(TaskObject(Tom, None, Hub))}
        \cup (IF Stored(id) THEN {tasks[id].version} ELSE {})

NextRemote ==
    \E id \in TaskIds, description \in {"d", "e"},
       answer \in {"found", "not found", "failed"}, served \in BOOLEAN :
        \E version \in ObjectVersions(id) :
            /\ Stored(id) => VersionDepth(tasks[id].version) < MaxVersions
            /\ TaskSaveRemote(id, description, version, answer, served)

SpecRemote == Init /\ [][NextRemote]_vars

----------------------------------------------------------------------------
(* Task.wait_for_done *)

\* FINAL_STATUSES
FinalStatuses == {"failed", "error", "canceled", "canceling", "timed out"}

\* Task.is_done
IsDone(status) == status \in FinalStatuses

\* The last clock reading of a run with a waiting caller.
MaxWait == 3

\* The caller of wait_for_done: where it is, the start it read, its timeout,
\* the status its object holds, and what each refresh showed with the clock
\* reading taken after it.
Waiter(at, start, timeout, status, refreshes) ==
    [at |-> at, start |-> start, timeout |-> timeout, status |-> status,
     refreshes |-> refreshes]

Waiting == resp.op = "wait_for_done" /\ resp.data.at = "waiting"

\* The loop test on the object and the outcome it gives the call.
LoopTest(id, waiter) ==
    IF IsDone(waiter.status)
    THEN Outcome("wait_for_done", id, Returned, [waiter EXCEPT !.at = "returned"])
    ELSE Outcome("wait_for_done", id, Returned, waiter)

\* task.wait_for_done(timeout): start = time.time(), then the first loop test
\* on the status the object holds.
WaitForDone(id, timeout) ==
    /\ Stored(id)
    /\ ~Waiting
    /\ Reply(LoopTest(id, Waiter("waiting", now, timeout, tasks[id].status, {})))

\* One pass of the loop with the deadline tested before the refresh is
\* looked at turned around: a refresh that shows a final status ends the wait
\* normally, whatever the clock reads.
WaitPassDoneFirst(elapsed) ==
    LET waiter == resp.data
        status == tasks[resp.task_id].status
        refreshed == [waiter EXCEPT !.status = status,
                        !.refreshes = @ \cup {[time |-> now + elapsed,
                                               status |-> status]}]
    IN  /\ Waiting
        /\ now' = now + elapsed
        /\ resp' = IF ~IsDone(status) /\ now + elapsed > waiter.start + waiter.timeout
                    THEN Outcome("wait_for_done", resp.task_id, Raised,
                                 [refreshed EXCEPT !.at = "timeout"])
                    ELSE LoopTest(resp.task_id, refreshed)
        /\ UNCHANGED <<tasks, pending, nextId, nextAction, others>>

\* One pass of the loop: sleep, refresh, the deadline test, then the loop
\* test. `elapsed` is the time the sleep and the refresh take, at least the
\* sleep of one second.
WaitPass(elapsed) ==
    LET waiter == resp.data
        status == tasks[resp.task_id].status
        refreshed == [waiter EXCEPT !.status = status,
                        !.refreshes = @ \cup {[time |-> now + elapsed,
                                               status |-> status]}]
    IN  /\ Waiting
        /\ now' = now + elapsed
        /\ resp' = IF now + elapsed > waiter.start + waiter.timeout
                    THEN Outcome("wait_for_done", resp.task_id, Raised,
                                 [refreshed EXCEPT !.at = "timeout"])
                    ELSE LoopTest(resp.task_id, refreshed)
        /\ UNCHANGED <<tasks, pending, nextId, nextAction, others>>

\* Whoever works on the task stores a new status; the caller does not see it
\* before its next refresh.
StatusChanges(id, status) ==
    /\ Stored(id)
    /\ tasks' = Merge(id, UpdatedTask(tasks[id], UpdateData(None, status)))
    /\ UNCHANGED <<pending, nextId, nextAction, now, resp, others>>

WaitLoop == \E elapsed \in 1..MaxWait : now + elapsed <= MaxWait /\ WaitPass(elapsed)

NextWait ==
    \/ /\ nextId <= MaxTasks
       /\ ~Waiting
       /\ CreateTask(Admin, None, "d", SingleReqs)
    \/ \E id \in TaskIds, timeout \in 0..MaxWait :
        /\ now + timeout < MaxWait
        /\ WaitForDone(id, timeout)
    \/ WaitLoop
    \/ \E id \in TaskIds, status \in {"in progress", "finished", "failed"} :
        StatusChanges(id, status)
    \/ now < MaxWait /\ ~Waiting /\ Tick

\* The loop runs in the caller's thread: a pass that can run does run.
SpecWait == Init /\ [][NextWait]_vars /\ WF_vars(WaitLoop)

----------------------------------------------------------------------------
(* Benchmarks *)

MaxBenchmarks == 2      \* benchmark objects of a run
MaxTemplates == 2       \* task templates of a benchmark

BenchmarkIds == 1..MaxBenchmarks
BenchmarkNames == {"test-bench", "other-bench"}

\* TaskTemplate(description, max_steps) with its id; a template holds no
\* label of its own.
Template(id, description, max_steps) ==
    [id |-> id, description |-> description, max_steps |-> max_steps,
     labels |-> <<>>]

\* The templates of a benchmark object, in order: the first n of a series,
\* and one list whose last template has no description.
TemplateSeries(n) ==
    [i \in 1..n |-> IF i % 2 = 1 THEN Template(i, "A", 30) ELSE Template(i, "B", 5)]
TemplateLists ==
    {TemplateSeries(n) : n \in 0..MaxTemplates}
        \cup {Append(TemplateSeries(1), Template(2, None, 5))}

\* A row of the benchmarks table with its rows of benchmark_task_association.
BenchmarkRecord(id, name, task_templates) ==
    [id |-> id, name |-> name, task_templates |-> task_templates]

\* The table without its unique constraint on name.
NameTakenNever(id, name) == FALSE

\* name = Column(String, unique=True): the commit of a row fails when another
\* row holds the name.
NameTaken(id, name) == \E r \in benchmarks : r.name = name /\ r.id # id

AssociationsOf(id) ==
    IF \E r \in benchmarks : r.id = id
    THEN (CHOOSE r \in benchmarks : r.id = id).task_templates
    ELSE {}

\* The loop of Benchmark.save over the templates: each association is
\* inserted and committed; the insert of one that exists fails on the primary
\* key of the association table and ends the loop.
RECURSIVE Associate(_, _)
Associate(associations, tasks_left) ==
    IF tasks_left = <<>> THEN [rows |-> associations, failed |-> FALSE]
    ELSE IF Head(tasks_left).id \in associations
    THEN [rows |-> associations, failed |-> TRUE]
    ELSE Associate(associations \cup {Head(tasks_left).id}, Tail(tasks_left))

BenchmarkOutcome(op, code, id, name, error) ==
    Outcome(op, 0, code, [id |-> id, name |-> name, error |-> error])

\* benchmark.save() of a benchmark object with this id, name and templates.
BenchmarkSave(id, name, task_list) ==
    LET associated == Associate(AssociationsOf(id), task_list)
    IN  /\ IF NameTaken(id, name)
           THEN /\ benchmarks' = benchmarks
                /\ resp' = BenchmarkOutcome("benchmark_save", Raised, id, name, "name")
           ELSE /\ benchmarks' = {r \in benchmarks : r.id # id} \cup
                                  {BenchmarkRecord(id, name, associated.rows)}
                /\ resp' = IF associated.failed
                            THEN BenchmarkOutcome("benchmark_save", Raised, id, name,
                                                  "association")
                            ELSE BenchmarkOutcome("benchmark_save", Returned, id, name,
                                                  None)
        /\ UNCHANGED <<tasks, pending, nextId, nextAction, now, inflight, stream, keys, heap>>

\* benchmark.delete()
BenchmarkDelete(id) ==
    /\ benchmarks' = {r \in benchmarks : r.id # id}
    /\ resp' = BenchmarkOutcome("benchmark_delete", Returned, id, None, None)
    /\ UNCHANGED <<tasks, pending, nextId, nextAction, now, inflight, stream, keys, heap>>

\* TaskTemplate.to_task with the default max_steps of Task in place of the
\* template's.
ToTaskWithDefaultSteps(tpl, assigned_to, assigned_type, owner_id) ==
    TaskObject(owner_id, tpl.description, None) @@
        [max_steps |-> 30, assigned_to |-> assigned_to,
         assigned_type |-> assigned_type, labels |-> tpl.labels]

\* TaskTemplate.to_task: the attributes of the Task it constructs.
ToTask(tpl, assigned_to, assigned_type, owner_id) ==
    TaskObject(owner_id, tpl.description, None) @@
        [max_steps |-> tpl.max_steps, assigned_to |-> assigned_to,
         assigned_type |-> assigned_type, labels |-> tpl.labels]

\* The loop of Eval.__init__ from the task id `id` on: each template is made
\* a Task, whose constructor raises without a description and saves
\* otherwise; the benchmark label is then set on the object. `stored` is the
\* row the constructor saved, `task` the object the Eval holds.
RECURSIVE Materialised(_, _, _, _, _)
Materialised(name, task_list, assigned_to, assigned_type, id) ==
    IF task_list = <<>> THEN [tasks |-> <<>>, failed |-> FALSE]
    ELSE IF Falsy(Head(task_list).description)
    THEN [tasks |-> <<>>, failed |-> TRUE]
    ELSE LET object == ToTask(Head(task_list), assigned_to, assigned_type, Tom)
             versioned == [object EXCEPT !.version = GenerateVersionHash(object)]
             stored == EnsureThread(id, Save(id, versioned), "feed")
             task == [stored EXCEPT !.labels = SetLabels(@, Label("benchmark", name))]
             rest == Materialised(name, Tail(task_list), assigned_to,
                                  assigned_type, id + 1)
         IN  [tasks |-> <<[id |-> id, stored |-> stored, task |-> task]>>
                            \o rest.tasks,
              failed |-> rest.failed]

\* benchmark.eval(assigned_to, assigned_type) on a benchmark object with this
\* name and these templates.
BenchmarkEval(name, task_list, assigned_to, assigned_type) ==
    LET made == Materialised(name, task_list, assigned_to, assigned_type, nextId)
        ids == {made.tasks[i].id : i \in DOMAIN made.tasks}
        eval == [name |-> name, templates |-> task_list,
                 assigned_to |-> assigned_to, assigned_type |-> assigned_type,
                 tasks |-> IF made.failed THEN <<>>
                           ELSE [i \in DOMAIN made.tasks |->
                                    [id |-> made.tasks[i].id,
                                     task |-> made.tasks[i].task]]]
    IN  /\ tasks' = [t \in DOMAIN tasks \cup ids |->
                        IF t \in ids THEN made.tasks[t - nextId + 1].stored
                        ELSE tasks[t]]
        /\ nextId' = nextId + Len(made.tasks)
        /\ resp' = Outcome("eval", 0, IF made.failed THEN Raised ELSE Returned, eval)
        /\ UNCHANGED <<pending, nextAction, now, others>>

NextBench ==
    \/ \E id \in BenchmarkIds, name \in BenchmarkNames, task_list \in TemplateLists :
        BenchmarkSave(id, name, task_list)
    \/ \E id \in BenchmarkIds : BenchmarkDelete(id)

SpecBench == Init /\ [][NextBench]_vars

\* Evals of benchmark objects, as long as the run has made no more than
\* MaxTasks tasks.
NextEval ==
    \E name \in BenchmarkNames, task_list \in TemplateLists,
       assigned_to \in {None, "test_agent"}, assigned_type \in {None, "pizza"} :
        /\ nextId <= MaxTasks + 1
        /\ BenchmarkEval(name, task_list, assigned_to, assigned_type)

SpecEval == Init /\ [][NextEval]_vars

----------------------------------------------------------------------------
(* Task.find by tags and labels *)

TagLists == {<<>>, <<"a">>, <<"b">>, <<"a", "b">>}
LabelMaps ==
    {<<>>, Label("k", "v"), Label("k", "w"), Label("m", "v"),
     [key \in {"k", "m"} |-> "v"]}

\* The tags table: TagRecord.tag of every row, each tag once (unique=True).
StoredTags == UNION {Range(tasks[id].tags) : id \in DOMAIN tasks}

\* Task(description, tags, labels) on the local store. to_record makes a new
\* TagRecord for every tag of the object at every save, and tags.tag is
\* unique: the first save fails when a tag is in the table, and the save that
\* create_thread runs for the feed thread fails on the object's own tags,
\* after the first save has stored the row.
TaskInitTagged(tag_list, label_map) ==
    LET object == TaskObject(Tom, "d", None) @@
                    [tags |-> tag_list, labels |-> label_map]
        versioned == [object EXCEPT !.version = GenerateVersionHash(object)]
        first == Save(nextId, versioned)
        data == [tags |-> tag_list, labels |-> label_map]
    IN  IF Range(tag_list) \cap StoredTags # {}
        THEN Reply(Outcome("task_init", 0, Raised, data))
        ELSE /\ tasks' = Merge(nextId, IF tag_list = <<>>
                                       THEN EnsureThread(nextId, first, "feed")
                                       ELSE first)
             /\ resp' = [Outcome("task_init", nextId,
                                  IF tag_list = <<>> THEN Returned ELSE Raised, data)
                            EXCEPT !.changed = TRUE]
             /\ nextId' = nextId + 1
             /\ UNCHANGED <<pending, nextAction, now, others>>

\* filter(TagRecord.tag.in_(tags)) over the join with the task's tags: the
\* filter is skipped for an empty list.
TagsMatch(task, tag_list) ==
    tag_list = <<>> \/ Range(tag_list) \cap Range(task.tags) # {}

\* The label filters when the query joins TaskRecord.labels once: every
\* (key, value) filter is on the same label row.
LabelsMatchOneRow(task, label_map) ==
    DOMAIN label_map = {} \/
    \E key \in DOMAIN task.labels :
        \A wanted \in DOMAIN label_map :
            key = wanted /\ task.labels[key] = label_map[wanted]

\* Task.find(tags=..., labels=...) on the local store. The loop over labels
\* joins TaskRecord.labels once per item: with two items the query either
\* keeps one join (`joins` = "merged") or is refused for joining the table
\* twice (`joins` = "refused"), by the version of the library.
TaskFind(tag_list, label_map, joins) ==
    LET data == [tags |-> tag_list, labels |-> label_map]
        found == {id \in DOMAIN tasks :
                    /\ TagsMatch(tasks[id], tag_list)
                    /\ LabelsMatchOneRow(tasks[id], label_map)}
    IN  IF Cardinality(DOMAIN label_map) > 1 /\ joins = "refused"
        THEN Reply(Outcome("find", 0, Raised, data))
        ELSE Reply([Outcome("find", 0, Returned, data) EXCEPT !.ids = found])

NextFind ==
    \/ \E tag_list \in TagLists, label_map \in LabelMaps :
        /\ nextId <= MaxTasks + 1
        /\ TaskInitTagged(tag_list, label_map)
    \/ \E tag_list \in TagLists, label_map \in LabelMaps,
          joins \in {"merged", "refused"} :
        TaskFind(tag_list, label_map, joins)

SpecFind == Init /\ [][NextFind]_vars


----------------------------------------------------------------------------
(* The terms of the specification *)

\* allowed_roles(K)
AllowedRoles(kind) ==
    CASE kind = "read" -> {"org:admin", "org:member", "org:agent", "org:viewer"}
      [] kind = "mutation" -> {"org:admin", "org:member", "org:agent"}
      [] kind = "delete" -> {"org:admin", "org:member"}

\* The kind of each operation.
KindOf(op) ==
    IF op \in {"get_task", "get_actions", "get_pending_approvals",
               "get_tasks", "search_tasks"}
    THEN "read"
    ELSE IF op = "delete_task" THEN "delete"
    ELSE "mutation"

\* resolve_owners(principal, K)
ResolveOwners(user, kind) ==
    {user.email} \cup
    {o \in DOMAIN user.organizations : user.organizations[o] \in AllowedRoles(kind)}

RoleIn(user, org) ==
    IF org \in DOMAIN user.organizations THEN user.organizations[org] ELSE None

\* The task-scoped operations whose handlers resolve an owner set.
GatedOps ==
    {"get_task", "get_actions", "update_task", "review_task", "record_action",
     "delete_task"}
TaskScopedOps == GatedOps \cup {"get_pending_approvals"}
ListOps == {"get_tasks", "search_tasks"}

\* The operations that end with a recompute of the pending reviewers.
RecomputeOps ==
    {"create_task", "review_task", "approve_action", "fail_action",
     "approve_prior_actions", "approve_all_actions", "fail_all_actions",
     "delete_all_actions"}
Recomputed == resp.op \in RecomputeOps /\ resp.code = 200 /\ Stored(resp.task_id)

\* The parties a requirement lists, each once.
Parties(req) == Range(req.users) \cup Range(req.agents)

\* party has a review on the task and a review on every action of its episode.
HasReviewed(task, party) ==
    /\ \E j \in DOMAIN task.reviews : task.reviews[j].reviewer = party
    /\ \A i \in DOMAIN task.actions :
        \E j \in DOMAIN task.actions[i].reviews :
            task.actions[i].reviews[j].reviewer = party

\* party has approved the task and every action of its episode.
HasApproved(task, party) ==
    /\ \E j \in DOMAIN task.reviews :
        task.reviews[j].reviewer = party /\ task.reviews[j].approved
    /\ \A i \in DOMAIN task.actions :
        \E j \in DOMAIN task.actions[i].reviews :
            /\ task.actions[i].reviews[j].reviewer = party
            /\ task.actions[i].reviews[j].approved

\* req names no party twice.
ListedOnce(req) == Cardinality(Parties(req)) = Len(req.users) + Len(req.agents)

RowsOf(id, req) ==
    {r \in pending : r.task_id = id /\ r.requirement_id = req.id}
HasRow(id, req, party) ==
    \E r \in RowsOf(id, req) : r.user_id = party \/ r.agent_id = party

UniquePairs(reviews) ==
    \A i, j \in DOMAIN reviews :
        (/\ reviews[i].reviewer = reviews[j].reviewer
         /\ reviews[i].reviewer_type = reviews[j].reviewer_type) => i = j

----------------------------------------------------------------------------
(* Task.find_many_lite *)

\* What the tasks of the test are given before they are saved: parameters,
\* reviews and review requirements.
Fixtures ==
    {[parameters |-> [foo |-> "bar4"],
      reviews |-> <<NewReview("alice", "human", TRUE, "Review A - All good", 0),
                    NewReview("bob", "human", FALSE, "Review B - Some issues", 0)>>,
      review_requirements |-> <<Requirement(1, <<"alice", "bob">>, <<>>)>>],
     [parameters |-> [foo |-> "bar5"],
      reviews |-> <<NewReview("charlie", "human", TRUE, "Review C - LGTM", 0)>>,
      review_requirements |-> <<Requirement(2, <<"charlie", "someone_else">>, <<>>)>>],
     [parameters |-> [foo |-> "bar6"],
      reviews |-> <<NewReview("david", "human", TRUE, "Review D - Quick check", 0)>>,
      review_requirements |-> <<Requirement(1, <<>>, <<"agent_1">>)>>],
     [parameters |-> <<>>, reviews |-> <<>>, review_requirements |-> <<>>]}

\* task.parameters = ...; task.reviews = [...];
\* task.review_requirements = [...]; task.save()
TaskSaveWith(id, fixture) ==
    LET reqs == [i \in DOMAIN fixture.review_requirements |->
                    [id |-> <<id, i>>] @@ fixture.review_requirements[i]]
        object == [parameters |-> fixture.parameters] @@
                    [tasks[id] EXCEPT !.reviews = fixture.reviews,
                                      !.review_requirements = reqs]
    IN  /\ Stored(id)
        /\ Saved("save", id, fixture, Save(id, object))
        /\ UNCHANGED <<nextId, others>>

\* The parameters of a stored task: {} when none were given.
ParametersOf(task) ==
    IF "parameters" \in DOMAIN task THEN task.parameters ELSE <<>>

\* A batch lookup that loads the task rows alone.
FindManyBare(task_ids) ==
    [id \in DOMAIN tasks \cap task_ids |->
        [parameters |-> ParametersOf(tasks[id]),
         reviews |-> <<>>, review_requirements |-> <<>>]]
\* Task.find_many_lite(task_ids=...): the stored tasks whose id is listed,
\* each with its parameters, reviews and review requirements loaded.
FindManyLite(task_ids) ==
    [id \in DOMAIN tasks \cap task_ids |->
        [parameters |-> ParametersOf(tasks[id]),
         reviews |-> tasks[id].reviews,
         review_requirements |-> tasks[id].review_requirements]]

TaskFindManyLite(task_ids) ==
    Reply([Outcome("find_many_lite", 0, Returned, FindManyLite(task_ids))
            EXCEPT !.ids = task_ids])

NextLite ==
    \/ \E description \in {"Task 4", "Task 5"} :
        /\ nextId <= MaxTasks
        /\ TaskInit(Tom, description)
    \/ \E id \in TaskIds, fixture \in Fixtures :
        CanSave(id) /\ TaskSaveWith(id, fixture)
    \/ \E task_ids \in SUBSET (1..MaxTasks + 1) : TaskFindManyLite(task_ids)

SpecLite == Init /\ [][NextLite]_vars

----------------------------------------------------------------------------
(* Requests in flight: reviews *)

\* The requests the server accepts in one run.
MaxRequests == 2

\* data.reviewer of a review request; None stands for the principal.
RequestReviewers == {None, "agent1"}
ReviewOps == {"review_task", "approve_action", "fail_action"}

\* A review request uvicorn has accepted: the coroutine of its handler is
\* scheduled and has not run. action_id is 0 for a review of the task.
ReviewRequest(op, id, action_id, reviewer) ==
    [op |-> op, task_id |-> id, action_id |-> action_id,
     data |-> ReviewData(reviewer, None, op # "fail_action", None),
     pc |-> "accepted", beside |-> {}]

ReviewerOf(r) == Reviewer(Admin, r.data).reviewer

Accepted == {r \in inflight : r.pc = "accepted"}

Accept(request) ==
    /\ Cardinality(inflight) < MaxRequests
    /\ \A r \in inflight :
            ~(r.op = request.op /\ r.task_id = request.task_id
                /\ r.action_id = request.action_id
                /\ ReviewerOf(r) = ReviewerOf(request))
    /\ inflight' = inflight \cup {request}
    /\ UNCHANGED <<tasks, pending, nextId, nextAction, now, resp, benchmarks, stream, keys, heap>>

\* What the handler of r does to the tables as they are when it runs.
ReviewOutcome(r) ==
    LET d == Reviewer(Admin, r.data)
    IN  IF r.op = "review_task"
        THEN ReviewTaskOutcome(Admin, r.task_id, r.data)
        ELSE ActionReviewOutcome(r.op, Admin, r.task_id, r.data,
                ReviewOne(tasks[r.task_id].actions, r.action_id, d.reviewer,
                          d.reviewer_type, r.op = "approve_action", d.reason))

\* The event loop runs the handler of r from its first line to its return:
\* review_task, approve_action and fail_action are coroutines without an
\* await, so no other handler runs between their find and their recompute.
\* beside keeps the reviewers whose requests were waiting meanwhile.
Serve(r) ==
    /\ r \in Accepted
    /\ Apply(ReviewOutcome(r))
    /\ inflight' = (inflight \ {r}) \cup
                    {[r EXCEPT !.pc = "answered",
                               !.beside = {ReviewerOf(q) : q \in Accepted \ {r}}]}
    /\ UNCHANGED <<nextId, nextAction, now, benchmarks, stream, keys, heap>>

NextReviews ==
    \/ /\ nextId <= MaxTasks
       /\ inflight = {}
       /\ CreateTask(Admin, None, "d", ExampleReqs)
    \/ \E id \in TaskIds :
        /\ nextAction <= MaxActions
        /\ inflight = {}
        /\ RecordAction(Admin, id, "click")
    \/ \E id \in TaskIds, reviewer \in RequestReviewers :
        /\ Stored(id)
        /\ Accept(ReviewRequest("review_task", id, 0, reviewer))
    \/ \E id \in TaskIds, action_id \in 1..MaxActions,
          reviewer \in RequestReviewers, op \in ReviewOps \ {"review_task"} :
        /\ HasAction(id, action_id)
        /\ Accept(ReviewRequest(op, id, action_id, reviewer))
    \/ \E r \in inflight : Serve(r)

SpecReviews == Init /\ [][NextReviews]_vars

----------------------------------------------------------------------------
(* Requests in flight: record_action, step by step *)

\* A record_action request whose handler is suspended: at
\* `await asyncio.gather(*imageTasks)` (pc = "converting") with the actions of
\* the episode as the handler read them, or at `await redis_client.xadd(...)`
\* (pc = "publishing") with the envelope it sends.
NoEnvelope == [task_id |-> 0, event_number |-> 0, prev_action |-> 0, action |-> 0]

RecordRequest(user, id, event, actions) ==
    [op |-> "record_action", user |-> user, task_id |-> id, event |-> event,
     actions |-> actions, pc |-> "converting", envelope |-> NoEnvelope]

\* The episode object of the handler after delete_action (for an end event
\* behind a mouse_move) and record_event: the end test was made on the same
\* list before the await.
LocalActions(actions, event) == RecordedTask([actions |-> actions], event).actions

\* The rows of the episode after the handler's delete_action and
\* record_event: the row of the deleted mouse_move is gone, the row of the
\* event is added behind the rows that are stored.
EpisodeRows(stored, actions, event) ==
    LET local == LocalActions(actions, event)
        deleted == ActionIds(actions) \ ActionIds(local)
    IN  Append(SelectSeq(stored, LAMBDA a : a.id \notin deleted), event)

\* V1ActionRecordedMessage(prevAction=..., action=..., event_number=..., task=...)
\* as the handler fills it from its episode object.
Envelope(id, actions, event) ==
    LET local == LocalActions(actions, event)
        actions_length == Len(local)
    IN  [task_id |-> id, event_number |-> actions_length,
         prev_action |-> IF actions_length > 1
                         THEN local[actions_length - 2 + 1].id ELSE 0,
         action |-> event.id]

\* From delete_action to the await of xadd, for a handler that read actions.
RecordAppend(r) ==
    /\ tasks' = [tasks EXCEPT ![r.task_id].actions =
                    EpisodeRows(@, r.actions, r.event)]
    /\ inflight' = (inflight \ {r}) \cup
                    {[r EXCEPT !.pc = "publishing",
                               !.envelope = Envelope(r.task_id, r.actions, r.event)]}

\* record_action from its first line to its first await, or to its return.
RecordBegin(user, id, name, images) ==
    LET owners == RecordActionOwners(user)
        actions == tasks[id].actions
        r == RecordRequest(user, id, NewAction(nextAction, name), actions)
    IN  IF Find(id, owners) = {}
        THEN NotFound("record_action", user, id, name, owners)
        ELSE IF actions # <<>> /\ LastName(actions) = "end"
        THEN Reply([Response("record_action", user, id, 200) EXCEPT
                        !.data = name, !.owners = owners])
        ELSE /\ IF images
                THEN /\ inflight' = inflight \cup {r}
                     /\ UNCHANGED tasks
                ELSE RecordAppend(r)
             /\ nextAction' = nextAction + 1
             /\ UNCHANGED <<pending, nextId, now, resp, benchmarks, stream, keys, heap>>

\* The images are converted: the handler goes on with the episode it read.
RecordResume(r) ==
    /\ r \in inflight /\ r.pc = "converting"
    /\ RecordAppend(r)
    /\ UNCHANGED <<pending, nextId, nextAction, now, resp, benchmarks, stream, keys, heap>>

\* xadd returns, or raises: nothing in record_action catches it, so the
\* request is answered 500.
RecordPublish(r, sent) ==
    /\ r \in inflight /\ r.pc = "publishing"
    /\ stream' = IF sent THEN Append(stream, r.envelope) ELSE stream
    /\ resp' = [Response("record_action", r.user, r.task_id,
                          IF sent THEN 200 ELSE 500) EXCEPT
                    !.data = r.event.name, !.events = <<r.event.id>>,
                    !.owners = RecordActionOwners(r.user), !.changed = TRUE]
    /\ inflight' = inflight \ {r}
    /\ UNCHANGED <<tasks, pending, nextId, nextAction, now, benchmarks, keys, heap>>

InFlight(id) == {r \in inflight : r.task_id = id}

\* Requests with images on one task, answered in every order.
NextRace ==
    \/ /\ nextId <= MaxTasks
       /\ CreateTask(Admin, None, "d", SingleReqs)
    \/ \E id \in TaskIds, name \in {"click", "end"}, images \in BOOLEAN :
        /\ Stored(id)
        /\ nextAction <= MaxEvents
        /\ Cardinality(inflight) < MaxRequests
        /\ RecordBegin(Admin, id, name, images)
    \/ \E r \in inflight : RecordResume(r)
    \/ \E r \in inflight : RecordPublish(r, TRUE)

SpecRace == Init /\ [][NextRace]_vars

\* One request at a time and without images, with the stream failing or not.
NextStream ==
    \/ /\ nextId <= MaxTasks
       /\ CreateTask(Admin, None, "d", SingleReqs)
    \/ \E id \in TaskIds, name \in ActionNames :
        /\ Stored(id)
        /\ nextAction <= MaxEvents
        /\ inflight = {}
        /\ RecordBegin(Admin, id, name, FALSE)
    \/ \E r \in inflight, sent \in BOOLEAN : RecordPublish(r, sent)
    \/ \E id \in TaskIds :
        /\ inflight = {}
        /\ DeleteAllActions(Admin, id)

SpecStream == Init /\ [][NextStream]_vars

----------------------------------------------------------------------------
(* The Task object of a remote task: the store is the caller's own *)

\* The review requirements a Task(...) call is given: none, one without
\* parties, or those of a create request.
ObjectReqs == {<<>>, <<Requirement(1, <<>>, <<>>)>>, SingleReqs, ExampleReqs}

\* The object Task(description=..., owner_id=..., remote=...,
\* review_requirements=..., episode=...) assigns; `episode` tells whether the
\* caller passed an Episode.
RemoteObject(id, description, reqs, episode) ==
    [TaskObject(Tom, description, Hub) EXCEPT
        !.review_requirements = NewTask(id, Tom, description, reqs).review_requirements,
        !.episode_id = IF episode THEN id ELSE NoEpisode]

\* update_pending_reviews reads self.episode for every party of every
\* requirement and raises ValueError("episode not set") when there is none.
EpisodeNotSet(task) ==
    /\ task.episode_id = NoEpisode
    /\ \E i \in DOMAIN task.review_requirements :
        task.review_requirements[i].agents \o task.review_requirements[i].users # <<>>

\* ensure_thread of a remote task: the threads are read, and the thread is
\* created when the answer does not name it.
EnsureThreadRequests(id, named) ==
    <<Request("GET", <<"/v1/tasks", id, "threads">>)>> \o
    (IF named THEN <<>> ELSE <<Request("POST", <<"/v1/tasks", id, "threads">>)>>)

\* Task(..., remote=Hub): save, ensure_thread("feed") and
\* update_pending_reviews, in this order; `found` is what the probe of save
\* meets and `named` whether the remote task has its feed thread.
TaskInitRemote(description, reqs, episode, found, named) ==
    LET id == nextId
        object == RemoteObject(id, description, reqs, episode)
        requests == SaveRequests(id, IF found THEN <<object>> ELSE <<>>, NoVersion)
                        \o EnsureThreadRequests(id, named)
    IN  /\ tasks' = tasks
        /\ pending' = IF EpisodeNotSet(object) THEN pending
                      ELSE UpdatePendingReviews(pending, id, object)
        /\ resp' = [Outcome("task_init_remote", id,
                            IF EpisodeNotSet(object) THEN Raised ELSE Returned,
                            [description |-> description, episode |-> episode,
                             review_requirements |-> object.review_requirements])
                        EXCEPT !.events = requests, !.changed = (pending' # pending)]
        /\ nextId' = nextId + 1
        /\ UNCHANGED <<nextAction, now, others>>

\* The request each mutating call on a remote task sends before it returns.
RemoteCalls ==
    [post_message |-> Request("POST", <<"msg">>),
     record_action_event |-> Request("POST", <<"actions">>),
     store_prompt |-> Request("POST", <<"prompts">>),
     add_prompt |-> Request("POST", <<"prompts">>),
     approve_prompt |-> Request("POST", <<"prompts", "approve">>),
     create_thread |-> Request("POST", <<"threads">>),
     remove_thread |-> Request("DELETE", <<"threads">>)]

\* task.<op>(...) of a remote task: the request, then return; the error of a
\* request the remote does not serve is raised to the caller.
TaskCallRemote(op, id, served) ==
    Reply([Outcome(op, id, IF served THEN Returned ELSE Raised, None) EXCEPT
            !.events = <<Request(RemoteCalls[op].method,
                                 <<"/v1/tasks", id>> \o RemoteCalls[op].path)>>])

\* task.save() of a remote task, the requests alone.
TaskSaveRequests(id, found) ==
    Reply([Outcome("save_remote", id, Returned, None) EXCEPT
            !.events = SaveRequests(id, IF found THEN <<TaskObject(Tom, "d", Hub)>>
                                        ELSE <<>>, NoVersion)])

\* task.ensure_thread(name) of a remote task.
TaskEnsureThreadRemote(id, named) ==
    Reply([Outcome("ensure_thread_remote", id, Returned, None) EXCEPT
            !.events = EnsureThreadRequests(id, named)])

\* The remote task objects a run has constructed.
RemoteIds == 1..(nextId - 1)

NextCalls ==
    \/ \E description \in {"d", "e"}, reqs \in ObjectReqs,
          episode \in BOOLEAN, found \in BOOLEAN, named \in BOOLEAN :
        /\ nextId <= MaxTasks
        /\ TaskInitRemote(description, reqs, episode, found, named)
    \/ \E op \in DOMAIN RemoteCalls, id \in RemoteIds, served \in BOOLEAN :
        TaskCallRemote(op, id, served)
    \/ \E id \in RemoteIds, found \in BOOLEAN : TaskSaveRequests(id, found)
    \/ \E id \in RemoteIds, named \in BOOLEAN : TaskEnsureThreadRemote(id, named)

SpecCalls == Init /\ [][NextCalls]_vars

----------------------------------------------------------------------------
(* The row of a task and the token of its object *)

\* The tokens a caller gives a Task object.
Tokens == {None, "key1", "key2"}

\* Task.to_record: the columns of the row. auth_token is not one of them (a
\* row read back by from_record carries no token).
ToRecord(task) == [task EXCEPT !.auth_token = None]

\* The object in process: the fields of the row and the token of the caller.
WithToken(task, auth_token) == [task EXCEPT !.auth_token = auth_token]

\* db.merge(self.to_record()) at the end of a call on the object.
Recorded(op, id, auth_token, task) ==
    /\ tasks' = Merge(id, ToRecord(task))
    /\ resp' = [Outcome(op, id, Returned, auth_token) EXCEPT
                    !.changed = (tasks' # tasks)]
    /\ UNCHANGED <<pending, nextAction, now, others>>

\* Task(description=..., owner_id=..., auth_token=...)
TaskInitToken(description, auth_token) ==
    LET object == WithToken(TaskObject(Tom, description, None), auth_token)
        versioned == [object EXCEPT !.version = GenerateVersionHash(object)]
    IN  /\ Recorded("task_init_token", nextId, auth_token,
                    EnsureThread(nextId, Save(nextId, versioned), "feed"))
        /\ nextId' = nextId + 1

\* task.save() of the object of a stored task that holds auth_token.
TaskSaveToken(id, auth_token) ==
    /\ Stored(id)
    /\ Recorded("save_token", id, auth_token,
                Save(id, WithToken(tasks[id], auth_token)))
    /\ UNCHANGED nextId

\* task.update(description=value) of the object of a stored task that holds
\* auth_token.
TaskUpdateToken(id, value, auth_token) ==
    /\ Stored(id)
    /\ Recorded("update_token", id, auth_token,
                Save(id, [WithToken(tasks[id], auth_token) EXCEPT
                            !.description = value]))
    /\ UNCHANGED nextId

NextToken ==
    \/ \E description \in {"d", "e"}, auth_token \in Tokens :
        /\ nextId <= MaxTasks
        /\ TaskInitToken(description, auth_token)
    \/ \E id \in TaskIds, auth_token \in Tokens :
        CanSave(id) /\ TaskSaveToken(id, auth_token)
    \/ \E id \in TaskIds, value \in {"d", "e"}, auth_token \in Tokens :
        CanSave(id) /\ TaskUpdateToken(id, value, auth_token)

SpecToken == Init /\ [][NextToken]_vars

----------------------------------------------------------------------------
(* The encryption key: get_encryption_key, step by step, in two processes *)

Processes == {"p1", "p2"}

\* Calls of get_encryption_key in one run.
MaxKeyCalls == 3

\* The value ENCRYPTION_KEY holds when the deployment sets it, and the keys
\* Fernet.generate_key() returns: a fresh one at every call.
EnvKey == "k0"
GeneratedKeys == <<"k1", "k2", "k3", "k4">>

\* The bytes of a key file that was opened for writing and not yet written.
Empty == ""

KeyCall(process, n, pc, key) ==
    [op |-> "get_encryption_key", process |-> process, n |-> n, pc |-> pc,
     key |-> key]

\* The deployment sets ENCRYPTION_KEY before any process asks for a key.
SetEnv ==
    /\ inflight = {} /\ keys = [env |-> None, file |-> None]
    /\ keys' = [keys EXCEPT !.env = EnvKey]
    /\ UNCHANGED <<tasks, pending, nextId, nextAction, now, resp, benchmarks,
                   inflight, stream, heap>>

\* get_encryption_key up to its return or to Fernet.generate_key(): the
\* environment variable, then the key file when it exists, then a new key.
KeyBegin(process) ==
    LET n == Cardinality(inflight) + 1
    IN  /\ inflight' = inflight \cup
            {IF keys.env # None THEN KeyCall(process, n, "returned", keys.env)
             ELSE IF keys.file # None
             THEN KeyCall(process, n, "returned", keys.file)
             ELSE KeyCall(process, n, "generated", GeneratedKeys[n])}
        /\ UNCHANGED <<tasks, pending, nextId, nextAction, now, resp, benchmarks,
                       stream, keys, heap>>

\* key_path.open("wb"): the file exists from here on, and is empty.
KeyOpen(r) ==
    /\ r \in inflight /\ r.pc = "generated"
    /\ keys' = [keys EXCEPT !.file = Empty]
    /\ inflight' = (inflight \ {r}) \cup {[r EXCEPT !.pc = "opened"]}
    /\ UNCHANGED <<tasks, pending, nextId, nextAction, now, resp, benchmarks, stream, heap>>

\* file.write(key), then return key.
KeyWrite(r) ==
    /\ r \in inflight /\ r.pc = "opened"
    /\ keys' = [keys EXCEPT !.file = r.key]
    /\ inflight' = (inflight \ {r}) \cup {[r EXCEPT !.pc = "returned"]}
    /\ UNCHANGED <<tasks, pending, nextId, nextAction, now, resp, benchmarks, stream, heap>>

\* A process runs one call at a time.
Idle(process) ==
    \A r \in inflight : r.process = process => r.pc = "returned"

NextKeys ==
    \/ SetEnv
    \/ \E process \in Processes :
        /\ Cardinality(inflight) < MaxKeyCalls
        /\ Idle(process)
        /\ KeyBegin(process)
    \/ \E r \in inflight : KeyOpen(r)
    \/ \E r \in inflight : KeyWrite(r)

SpecKeys == Init /\ [][NextKeys]_vars

\* Fernet(key).encrypt of a device descriptor, and Fernet(key).decrypt, which
\* raises InvalidToken under another key.
InvalidToken == <<"InvalidToken", None>>
EncryptDevice(device, key) == <<device, key>>
DecryptDevice(encrypted_device, key) ==
    IF encrypted_device[2] = key /\ key # Empty
    THEN <<encrypted_device[1], None>> ELSE InvalidToken

----------------------------------------------------------------------------
(* Objects and the collections they refer to *)

\* Task and TaskTemplate objects constructed, and prompts stored, in one run.
MaxObjects == 3

\* The dicts a caller builds and passes as labels=..., one per object.
OwnCells == <<"labels1", "labels2", "labels3", "labels4">>

\* self._labels = labels, self._prompts = prompts: the object keeps the
\* reference it was given. A TaskTemplate has no prompts.
Object(kind, labels, prompts) == [kind |-> kind, labels |-> labels, prompts |-> prompts]

\* A constructor returns: the object is there, and so is the dict of the
\* caller when the labels argument was a new one.
Constructed(object, own) ==
    LET n == Len(heap.objects) + 1
    IN  /\ heap' = [cells |-> IF own
                              THEN [r \in DOMAIN heap.cells \cup {object.labels} |->
                                        IF r \in DOMAIN heap.cells
                                        THEN heap.cells[r] ELSE <<>>]
                              ELSE heap.cells,
                    objects |-> Append(heap.objects, object)]
        /\ resp' = Outcome("construct", n, Returned, object.kind)
        /\ UNCHANGED <<tasks, pending, nextId, nextAction, now, benchmarks,
                       inflight, stream, keys>>

\* TaskTemplate(description=...), with labels left out or given.
NewTemplate(own) ==
    Constructed(Object("TaskTemplate",
                       IF own THEN OwnCells[Len(heap.objects) + 1]
                       ELSE "TaskTemplate.labels",
                       None), own)

\* Task(description=..., owner_id=...), with labels left out or given.
NewTaskObject(own) ==
    Constructed(Object("Task",
                       IF own THEN OwnCells[Len(heap.objects) + 1]
                       ELSE "Task.labels",
                       "Task.prompts"), own)

\* tpl.to_task(): Task(..., labels=self.labels, ...), prompts left out.
TemplateToTask(i) ==
    /\ i \in DOMAIN heap.objects /\ heap.objects[i].kind = "TaskTemplate"
    /\ Constructed(Object("Task", heap.objects[i].labels, "Task.prompts"), FALSE)

\* object.labels[key] = value, as Benchmark.__init__, Eval.__init__ and
\* update_task do.
SetLabel(i, key, value) ==
    LET cell == heap.objects[i].labels
    IN  /\ i \in DOMAIN heap.objects
        /\ heap' = [heap EXCEPT !.cells[cell] = SetLabels(@, Label(key, value))]
        /\ resp' = Outcome("set_label", i, Returned, value)
        /\ UNCHANGED <<tasks, pending, nextId, nextAction, now, benchmarks,
                       inflight, stream, keys>>

\* task.store_prompt(...), task.add_prompt(prompt): self._prompts.append(prompt)
StorePrompt(i, prompt) ==
    LET cell == heap.objects[i].prompts
    IN  /\ i \in DOMAIN heap.objects /\ heap.objects[i].kind = "Task"
        /\ heap' = [heap EXCEPT !.cells[cell] = Append(@, prompt)]
        /\ resp' = Outcome("store_prompt", i, Returned, prompt)
        /\ UNCHANGED <<tasks, pending, nextId, nextAction, now, benchmarks,
                       inflight, stream, keys>>

\* What an object shows as its labels and as its prompts.
LabelsOf(h, i) == h.cells[h.objects[i].labels]
PromptsOf(h, i) ==
    IF h.objects[i].kind = "Task" THEN h.cells[h.objects[i].prompts] ELSE <<>>
PromptsStored == Len(heap.cells["Task.prompts"])

NextShare ==
    \/ \E own \in BOOLEAN :
        Len(heap.objects) < MaxObjects /\ NewTemplate(own)
    \/ \E own \in BOOLEAN :
        Len(heap.objects) < MaxObjects /\ NewTaskObject(own)
    \/ \E i \in 1..MaxObjects :
        Len(heap.objects) < MaxObjects /\ TemplateToTask(i)
    \/ \E i \in DOMAIN heap.objects, value \in BenchmarkNames :
        SetLabel(i, "benchmark", value)
    \/ \E i \in DOMAIN heap.objects :
        PromptsStored < MaxObjects /\ StorePrompt(i, PromptsStored + 1)

SpecShare == Init /\ [][NextShare]_vars

----------------------------------------------------------------------------
(* Annotations of action events *)

\* Annotations created in one run, and reviews added to them.
MaxAnnotations == 1
MaxAnnotationReviews == 2

\* A member of acme whose own tasks the administrator has no access to.
Manager == [email |-> Ann, organizations |-> [o \in Orgs |-> "org:member"]]

\* The tasks and the action events of a run with two owners.
AnnotTaskIds == 1..(MaxTasks + 1)
AnnotActionIds == 1..(MaxActions + 1)

\* AnnotationReviewable(key, value, annotator, annotator_type)
NewAnnotation(id, key, annotator) ==
    [id |-> id, key |-> key, annotator |-> annotator, reviews |-> <<>>]

\* ActionEvent.find(id=action_id): the lookup is by the event's id alone.
EventHolders(action_id) ==
    {t \in DOMAIN tasks : action_id \in ActionIds(tasks[t].actions)}

\* Where the stored annotations are: task, place of the event, place of the
\* annotation among the event's reviewables.
Slots ==
    UNION {UNION {{[task |-> t, i |-> i, k |-> k] :
                        k \in DOMAIN tasks[t].actions[i].reviewables} :
                  i \in DOMAIN tasks[t].actions} :
           t \in DOMAIN tasks}
AnnotationAt(slot) == tasks[slot.task].actions[slot.i].reviewables[slot.k]

\* AnnotationReviewable.find(id=annotation_id): by the annotation's id alone.
FoundAnnotations(annotation_id) ==
    {slot \in Slots : AnnotationAt(slot).id = annotation_id}

\* event.reviewables.append(annot); event.save()
Annotated(task, action_id, annot) ==
    [task EXCEPT !.actions =
        [i \in DOMAIN @ |->
            IF @[i].id = action_id
            THEN [@[i] EXCEPT !.reviewables = Append(@, annot)]
            ELSE @[i]]]

\* A write of a handler to the task `holder`, answered for the task `id` of
\* the path.
Written(op, user, id, data, owners, holder, task) ==
    /\ tasks' = Merge(holder, task)
    /\ resp' = [Response(op, user, id, 200) EXCEPT
                    !.data = data, !.owners = owners, !.ids = {holder},
                    !.changed = (Merge(holder, task) # tasks)]
    /\ UNCHANGED <<pending, nextId, nextAction, now, others>>

\* POST /v1/tasks/{task_id}/actions/{action_id}/annotations
CreateAnnotation(user, id, action_id, key) ==
    LET owners == TaskOwners(user, MutateRoles)
        holders == EventHolders(action_id)
        holder == CHOOSE t \in holders : TRUE
        annot == NewAnnotation(Cardinality(Slots) + 1, key, user.email)
        data == [action_id |-> action_id, annotation_id |-> annot.id,
                 review |-> None]
    IN  IF Find(id, owners) = {}
        THEN NotFound("create_annotation", user, id, data, owners)
        ELSE IF holders = {}
        THEN NotFound("create_annotation", user, id, data, owners)
        ELSE Written("create_annotation", user, id, data, owners, holder,
                     Annotated(tasks[holder], action_id, annot))

\* The loop of review_annotation over reviewable.reviews and what follows it:
\* the first review whose reviewer is the caller is overwritten, and without
\* one post_review adds a review by review.reviewer, or by the caller when
\* the request names nobody.
AnnotationReviews(reviews, email, review) ==
    LET mine == {i \in DOMAIN reviews : reviews[i].reviewer = email}
        first == CHOOSE i \in mine : \A j \in mine : i <= j
    IN  IF mine # {}
        THEN [reviews EXCEPT ![first] =
                [@ EXCEPT !.approved = review.approved,
                          !.reviewer_type = review.reviewer_type,
                          !.reason = review.reason]]
        ELSE Append(reviews,
                    ActionReview(IF review.reviewer # None THEN review.reviewer
                                 ELSE email,
                                 review.reviewer_type, review.approved,
                                 review.reason))

\* POST /v1/tasks/{task_id}/actions/{action_id}/annotations/{annotation_id}/review
ReviewAnnotation(user, id, action_id, annotation_id, review) ==
    LET owners == TaskOwners(user, MutateRoles)
        found == FoundAnnotations(annotation_id)
        slot == CHOOSE s \in found : TRUE
        data == [action_id |-> action_id, annotation_id |-> annotation_id,
                 review |-> review]
    IN  IF Find(id, owners) = {}
        THEN NotFound("review_annotation", user, id, data, owners)
        ELSE IF found = {}
        THEN NotFound("review_annotation", user, id, data, owners)
        ELSE Written("review_annotation", user, id, data, owners, slot.task,
                     [tasks[slot.task] EXCEPT
                        !.actions[slot.i].reviewables[slot.k].reviews =
                            AnnotationReviews(@, user.email, review)])

RECURSIVE Total(_)
Total(counts) ==
    IF counts = {} THEN 0
    ELSE LET c == CHOOSE x \in counts : TRUE
         IN  c[2] + Total(counts \ {c})

\* The reviews the stored annotations hold.
AnnotationReviewCount ==
    Total({<<slot, Len(AnnotationAt(slot).reviews)>> : slot \in Slots})

NextAnnot ==
    \/ \E user \in {Admin, Manager} :
        /\ nextId <= MaxTasks + 1
        /\ CreateTask(user, None, "d", <<>>)
    \/ \E user \in {Admin, Manager}, id \in AnnotTaskIds :
        /\ nextAction <= MaxActions + 1
        /\ RecordAction(user, id, "click")
    \/ \E user \in {Admin, Manager}, id \in AnnotTaskIds, action_id \in AnnotActionIds :
        /\ Cardinality(Slots) < MaxAnnotations
        /\ CreateAnnotation(user, id, action_id, "k")
    \/ \E user \in {Admin, Manager}, id \in AnnotTaskIds, action_id \in AnnotActionIds,
          annotation_id \in 1..MaxAnnotations, reviewer \in {None, "agent1"},
          approved \in BOOLEAN :
        /\ AnnotationReviewCount < MaxAnnotationReviews
        /\ ReviewAnnotation(user, id, action_id, annotation_id,
                            ReviewData(reviewer, "human", approved, None))

SpecAnnot == Init /\ [][NextAnnot]_vars

----------------------------------------------------------------------------
(* The statements *)

\* C1: in every state, for every requirement r of a stored task that lists
\* each of its parties once and every party p listed in r, a pending row
\* (task, r, p) exists iff fewer than r.number_required of the parties listed
\* in r have a review on the task and on every action of its episode.
C1_PendingRowIff ==
    \A id \in DOMAIN tasks :
        \A i \in DOMAIN tasks[id].review_requirements :
            LET req == tasks[id].review_requirements[i]
                done == {q \in Parties(req) : HasReviewed(tasks[id], q)}
            IN  ListedOnce(req) =>
                    \A party \in Parties(req) :
                        HasRow(id, req, party) <=>
                            Cardinality(done) < req.number_required

\* C2: right after a recompute, for each requirement r of the task: if at
\* least r.number_required listed parties have reviewed the task and every
\* action, no row of r remains; otherwise every listed party that has not
\* done both has a row of r.
C2_AfterRecompute ==
    Recomputed =>
        LET id == resp.task_id
        IN  \A i \in DOMAIN tasks[id].review_requirements :
                LET req == tasks[id].review_requirements[i]
                    done == {q \in Parties(req) : HasReviewed(tasks[id], q)}
                IN  IF Cardinality(done) >= req.number_required
                    THEN RowsOf(id, req) = {}
                    ELSE \A party \in Parties(req) \ done : HasRow(id, req, party)

\* C3: right after a recompute, the rows of a requirement are cleared only if
\* at least number_required distinct listed parties have approved the task
\* and every action of its episode.
C3_ClearedOnlyByApprovals ==
    Recomputed =>
        LET id == resp.task_id
        IN  \A i \in DOMAIN tasks[id].review_requirements :
                LET req == tasks[id].review_requirements[i]
                    approving == {q \in Parties(req) : HasApproved(tasks[id], q)}
                IN  (Parties(req) # {} /\ RowsOf(id, req) = {}) =>
                        Cardinality(approving) >= req.number_required

\* C4: a task-scoped operation by a principal whose resolved owners do not
\* hold the task's owner fails, returns nothing about the task and changes
\* nothing.
C4_UnauthorisedFails ==
    (/\ resp.op \in TaskScopedOps
     /\ resp.target_owner # None
     /\ resp.target_owner \notin ResolveOwners(resp.user, KindOf(resp.op)))
    => /\ resp.code # 200
       /\ resp.ids = {} /\ resp.users = {} /\ resp.agents = {}
       /\ resp.events = <<>>
       /\ ~resp.changed

\* C5: on a task owned by an organisation, an operation of kind K by a
\* principal succeeds iff the principal's role in the organisation is in
\* allowed_roles(K); a refused operation answers 404 and leaves the store as
\* it was, a successful delete removes the task, a successful update stores
\* the new description.
C5_RoleDecides ==
    [][(resp'.op \in GatedOps /\ resp'.target_owner \in Orgs) =>
        /\ (resp'.code = 200) <=>
                (RoleIn(resp'.user, resp'.target_owner)
                    \in AllowedRoles(KindOf(resp'.op)))
        /\ resp'.code # 200 =>
                resp'.code = 404 /\ tasks' = tasks /\ pending' = pending
        /\ (resp'.op = "delete_task" /\ resp'.code = 200) =>
                resp'.task_id \notin DOMAIN tasks'
        /\ (resp'.op = "update_task" /\ resp'.code = 200) =>
                tasks'[resp'.task_id].description = resp'.data.description
      ]_vars

\* C5, its case: a viewer's PUT on a task of the organisation answered 404.
C5_ViewerPutRefused ==
    /\ resp.op = "update_task"
    /\ resp.code = 404
    /\ resp.target_owner \in Orgs
    /\ RoleIn(resp.user, resp.target_owner) = "org:viewer"
    /\ tasks[resp.task_id].description = "d"

\* C6: the owner set a handler uses on a stored task is
\* resolve_owners(principal, K), for every principal; a principal can act on
\* a task whose owner_id is their own email.
C6_OwnerSet ==
    (resp.op \in GatedOps /\ resp.target_owner # None) =>
        /\ resp.owners = ResolveOwners(resp.user, KindOf(resp.op))
        /\ resp.target_owner = resp.user.email => resp.code = 200

\* C7: a list or search request with an owners filter returns no task of an
\* owner outside resolve_owners(principal, read).
C7_NoForeignTask ==
    (resp.op \in ListOps /\ resp.filter # <<>>) =>
        \A id \in resp.ids :
            OwnerOf(id) \in ResolveOwners(resp.user, "read")

\* C8: a stored task is listed to a principal (no owners filter) iff the
\* principal's get of it succeeds.
C8_FindEqualsGet ==
    \A user \in Principals, id \in DOMAIN tasks :
        (/\ GetTasksCode(user, <<>>) = 200
         /\ id \in FindByOwners(GetTasksOwners(user, <<>>)))
        <=> Find(id, GetTaskOwners(user)) # {}

\* C9: a successful review_task leaves at most one review per (reviewer,
\* reviewer_type); when the pair of the call matches a review, that review
\* gets the call's approved and reason and updated = now and nothing else
\* changes; otherwise exactly one review, the call's, is appended.
C9_Upsert ==
    [][(resp'.op = "review_task" /\ resp'.code = 200 /\ now' = now) =>
        LET id == resp'.task_id
            d == resp'.data
            old == tasks[id].reviews
            new == tasks'[id].reviews
            matching == {k \in DOMAIN old :
                            /\ old[k].reviewer = d.reviewer
                            /\ old[k].reviewer_type = d.reviewer_type}
        IN  /\ UniquePairs(new)
            /\ IF matching # {}
               THEN /\ DOMAIN new = DOMAIN old
                    /\ \A k \in DOMAIN old :
                        new[k] = IF k \in matching
                                 THEN [old[k] EXCEPT !.approved = d.approved,
                                                     !.reason = d.reason,
                                                     !.updated = now]
                                 ELSE old[k]
               ELSE new = Append(old,
                        [reviewer |-> d.reviewer,
                         reviewer_type |-> d.reviewer_type,
                         approved |-> d.approved, reason |-> d.reason,
                         created |-> now, updated |-> 0])
      ]_vars

\* C9, its case: a task with two reviews of one reviewer under two reviewer
\* types, one of them updated by a later call.
C9_UpdatedInPlace ==
    \E id \in DOMAIN tasks :
        /\ Len(tasks[id].reviews) = 2
        /\ tasks[id].reviews[1].reviewer = tasks[id].reviews[2].reviewer
        /\ tasks[id].reviews[1].updated = MaxClock
        /\ tasks[id].reviews[1].created < MaxClock
        /\ ~tasks[id].reviews[1].approved

\* C10: no event of an episode follows an event named end.
C10_NothingAfterEnd ==
    \A id \in DOMAIN tasks :
        \A i \in DOMAIN tasks[id].actions :
            tasks[id].actions[i].name = "end" => i = Len(tasks[id].actions)

\* C11: a successful record_action on an episode whose last event is not end:
\* when the event is named end and the last event is named mouse_move, the
\* episode becomes the earlier events, in their order, followed by the new
\* event; in every other case it becomes the old episode followed by the new
\* event.
C11_EndDropsMouseMove ==
    [][(resp'.op = "record_action" /\ resp'.code = 200) =>
        LET id == resp'.task_id
            old == tasks[id].actions
            new == tasks'[id].actions
            event == NewAction(nextAction, resp'.data)
        IN  (old = <<>> \/ old[Len(old)].name # "end") =>
                IF /\ resp'.data = "end"
                   /\ old # <<>>
                   /\ old[Len(old)].name = "mouse_move"
                THEN new = Append(SubSeq(old, 1, Len(old) - 1), event)
                ELSE new = Append(old, event)
      ]_vars

\* C11, its case: click, mouse_move, end were posted and the episode reads
\* [click, end].
C11_ClickEnd ==
    /\ resp.op = "record_action" /\ resp.code = 200 /\ resp.data = "end"
    /\ \E id \in DOMAIN tasks :
        /\ Len(tasks[id].actions) = 2
        /\ tasks[id].actions[1] = NewAction(1, "click")
        /\ tasks[id].actions[2] = NewAction(3, "end")

\* C12: every stored task of the local store carries the version
\* SHA-256(canonical_json(to_v1(task))), to_v1 taken on the task as stored.
C12_VersionIsHashOfTask ==
    \A id \in DOMAIN tasks :
        tasks[id].version = GenerateVersionHash(tasks[id])

\* C13: a successful update_task gives every settable field the patch names
\* (description, status, max_steps, assigned_to, error, output, completed) the
\* patch's value, keeps every field the patch leaves out, and upserts the keys
\* of set_labels into labels, every other label key keeping its value.
C13_PatchApplied ==
    [][(resp'.op = "update_task" /\ resp'.code = 200) =>
        LET id == resp'.task_id
            data == resp'.data
            old == tasks[id]
            new == tasks'[id]
        IN  /\ new.description =
                    IF data.description # None THEN data.description ELSE old.description
            /\ new.status = IF data.status # None THEN data.status ELSE old.status
            /\ new.max_steps = IF data.max_steps # 0 THEN data.max_steps ELSE old.max_steps
            /\ new.assigned_to =
                    IF data.assigned_to # None THEN data.assigned_to ELSE old.assigned_to
            /\ new.error = IF data.error # None THEN data.error ELSE old.error
            /\ new.output = IF data.output # None THEN data.output ELSE old.output
            /\ new.completed = IF data.completed # 0 THEN data.completed ELSE old.completed
            /\ DOMAIN new.labels = DOMAIN old.labels \cup DOMAIN data.set_labels
            /\ \A key \in DOMAIN new.labels :
                    new.labels[key] = IF key \in DOMAIN data.set_labels
                                      THEN data.set_labels[key]
                                      ELSE old.labels[key]
            /\ new.owner_id = old.owner_id /\ new.reviews = old.reviews
            /\ new.review_requirements = old.review_requirements
            /\ new.actions = old.actions
      ]_vars

\* C14: every stored task has a non-empty description or a non-empty remote
\* endpoint, and a construction with neither raises and stores nothing.
C14_DescriptionOrRemote ==
    /\ \A id \in DOMAIN tasks :
            ~Falsy(tasks[id].description) \/ ~Falsy(tasks[id].remote)
    /\ (resp.op = "task_init" /\ Falsy(resp.data)) =>
            resp.code = Raised /\ ~resp.changed

\* C15: whatever threads were created, ensured or removed, every stored task
\* has exactly one thread named feed and exactly one episode.
C15_OneFeedOneEpisode ==
    \A id \in DOMAIN tasks :
        /\ Cardinality({i \in DOMAIN tasks[id].threads :
                            tasks[id].threads[i].name = "feed"}) = 1
        /\ tasks[id].episode_id # NoEpisode

\* C16: the task that copy() returns has an episode of its own, new and
\* empty: it is not the episode of the original and holds no action.
C16_CopyHasNewEpisode ==
    resp.op = "copy" =>
        /\ resp.data.task.episode_id # tasks[resp.task_id].episode_id
        /\ resp.data.task.actions = <<>>
        /\ resp.data.id \notin DOMAIN tasks

\* C17: pending_reviews(agent = a) is exactly the set of tasks that have an
\* unsatisfied requirement listing a among its agents, and pending_reviews(
\* user = u) is exactly the set of tasks that have an unsatisfied requirement
\* listing u among its users. A requirement is unsatisfied while fewer than
\* number_required of its parties have approved the task and every action.
C17_PendingReviewsOfParty ==
    LET Unsatisfied(id, req) ==
            Cardinality({q \in Parties(req) : HasApproved(tasks[id], q)})
                < req.number_required
        Listing(id, party, field) ==
            \E i \in DOMAIN tasks[id].review_requirements :
                LET req == tasks[id].review_requirements[i]
                IN  party \in Range(req[field]) /\ Unsatisfied(id, req)
    IN  /\ \A a \in {"agent1", "agent2", "agent3"} :
            PendingReviewsOfAgent(a) =
                {id \in DOMAIN tasks : Listing(id, a, "agents")}
        /\ \A u \in Emails \cup {Anonymous} :
            PendingReviewsOfUser(u) =
                {id \in DOMAIN tasks : Listing(id, u, "users")}

C19_ProbeThenOneWrite ==
    resp.op = "save_remote" =>
        LET requests == resp.events
            writes == {i \in DOMAIN requests : requests[i].method \in {"PUT", "POST"}}
        IN  /\ requests # <<>>
            /\ requests[1] = Request("GET", <<"/v1/tasks", resp.task_id>>)
            /\ Cardinality(writes) = 1
            /\ writes = {2}
            /\ resp.data.answer = "found" =>
                    requests[2] = Request("PUT", <<"/v1/tasks", resp.task_id>>)
            /\ resp.data.answer = "not found" =>
                    requests[2] = Request("POST", <<"/v1/tasks">>)

\* A save has updated a task whose remote version is not the object's.
C19_SavedOverOtherVersion ==
    /\ resp.op = "save_remote" /\ resp.code = Returned
    /\ resp.data.answer = "found"
    /\ resp.data.remote_version # resp.data.version
    /\ resp.changed

C22_EvalMaterialises ==
    [][(resp'.op = "eval" /\ resp'.code = Returned) =>
        LET eval == resp'.data
        IN  /\ Len(eval.tasks) = Len(eval.templates)
            /\ \A i, j \in DOMAIN eval.tasks :
                    eval.tasks[i].id = eval.tasks[j].id => i = j
            /\ \A i \in DOMAIN eval.tasks :
                    LET made == eval.tasks[i]
                        tpl == eval.templates[i]
                    IN  /\ made.id \notin DOMAIN tasks
                        /\ made.id \in DOMAIN tasks'
                        /\ "benchmark" \in DOMAIN made.task.labels
                        /\ made.task.labels["benchmark"] = eval.name
                        /\ made.task.assigned_to = eval.assigned_to
                        /\ made.task.assigned_type = eval.assigned_type
                        /\ made.task.description = tpl.description
                        /\ made.task.max_steps = tpl.max_steps
      ]_vars

\* The eval of the test: two templates, assigned to test_agent.
C22_TwoTasksForTestAgent ==
    /\ resp.op = "eval" /\ resp.code = Returned
    /\ Len(resp.data.tasks) = 2
    /\ resp.data.name = "test-bench"
    /\ resp.data.assigned_to = "test_agent"

\* C23: a find(tags, labels) that returns, returns exactly the stored tasks
\* whose tags hold every requested tag and whose labels hold every requested
\* (key, value) pair.
C23_FindByTagsAndLabels ==
    (resp.op = "find" /\ resp.code = Returned) =>
        /\ resp.ids =
            {id \in DOMAIN tasks :
                /\ Range(resp.data.tags) \subseteq Range(tasks[id].tags)
                /\ \A key \in DOMAIN resp.data.labels :
                        /\ key \in DOMAIN tasks[id].labels
                        /\ tasks[id].labels[key] = resp.data.labels[key]}

\* What the client receives of a response.
Body(r) ==
    [code |-> r.code, ids |-> r.ids, users |-> r.users, agents |-> r.agents,
     events |-> r.events]

\* The ids that are not stored: those deleted and the one not issued yet.
Missing == (TaskIds \cup {nextId}) \ DOMAIN tasks

\* C24: a get or an update by a principal who is not authorised for a stored
\* task is answered as the same request for an id that is not stored is: the
\* same status and the same body, whatever the inaccessible task holds.
C24_InaccessibleAsMissing ==
    \A user \in Principals, id \in DOMAIN tasks, missing \in Missing :
        /\ tasks[id].owner_id \notin ResolveOwners(user, "read") =>
                Body(GetTaskResponse(user, id)) =
                    Body(GetTaskResponse(user, missing))
        /\ tasks[id].owner_id \notin ResolveOwners(user, "mutation") =>
                \A data \in {UpdateData("e", None)} :
                    Body(UpdateTaskResponse(user, id, data)) =
                        Body(UpdateTaskResponse(user, missing, data))

\* A get or an update of a stored task by a principal who is not authorised
\* for it, answered 404 while some id is not stored.
C24_RefusedWhileStored ==
    /\ resp.op \in {"get_task", "update_task"}
    /\ Stored(resp.task_id)
    /\ tasks[resp.task_id].owner_id \notin ResolveOwners(resp.user, KindOf(resp.op))
    /\ resp.code = 404
    /\ Missing # {}

\* C25: find_many_lite(task_ids) returns exactly the stored tasks whose id is
\* in task_ids (an id that is not stored adds nothing, no other task is
\* returned), each with the parameters, reviews and review requirements that
\* were saved for it.
C25_FindManyLite ==
    resp.op = "find_many_lite" =>
        /\ DOMAIN resp.data = {id \in resp.ids : Stored(id)}
        /\ \A id \in DOMAIN resp.data :
                /\ resp.data[id].parameters = ParametersOf(tasks[id])
                /\ resp.data[id].reviews = tasks[id].reviews
                /\ resp.data[id].review_requirements = tasks[id].review_requirements

\* A lookup of a stored task saved with two reviews and of an id that is not
\* stored.
C25_FoundWithReviews ==
    /\ resp.op = "find_many_lite"
    /\ \E id \in resp.ids : ~Stored(id)
    /\ \E id \in DOMAIN resp.data :
            /\ Len(resp.data[id].reviews) = 2
            /\ Len(resp.data[id].review_requirements) = 1
            /\ resp.data[id].parameters # <<>>

\* Another request of the same reviewer on the same action: the later one
\* updates the review of the earlier.
Overruled(r) ==
    \E q \in inflight \ {r} :
        /\ q.task_id = r.task_id /\ q.action_id = r.action_id
        /\ ReviewerOf(q) = ReviewerOf(r)

\* The store holds the review the request r asked for.
ReviewStored(r) ==
    IF r.op = "review_task"
    THEN \E i \in DOMAIN tasks[r.task_id].reviews :
            tasks[r.task_id].reviews[i].reviewer = ReviewerOf(r)
    ELSE \E i \in DOMAIN tasks[r.task_id].actions :
            /\ tasks[r.task_id].actions[i].id = r.action_id
            /\ \E j \in DOMAIN tasks[r.task_id].actions[i].reviews :
                    /\ tasks[r.task_id].actions[i].reviews[j].reviewer = ReviewerOf(r)
                    /\ Overruled(r) \/
                        tasks[r.task_id].actions[i].reviews[j].approved =
                            (r.op = "approve_action")

\* The rows of a pending_reviewers table that belong to a task.
TaskRows(p, id) == {x \in p : x.task_id = id}

\* Both answered, and q was waiting when the handler of r ran.
RanTogether(r, q) ==
    /\ r.pc = "answered" /\ q.pc = "answered"
    /\ r.task_id = q.task_id
    /\ ReviewerOf(r) # ReviewerOf(q)
    /\ ReviewerOf(q) \in r.beside

Position(actions, action_id) ==
    IF action_id \in ActionIds(actions) THEN IndexOf(actions, action_id) ELSE 0

\* C27: once the record_action requests of a task are answered, every
\* envelope published for the task carries as event_number the position of
\* its event in the episode and as prev_action the event right before it, and
\* no two envelopes of the task carry the same event_number.
C27_EnvelopesFollowEpisode ==
    inflight = {} =>
        /\ \A i \in DOMAIN stream :
            LET e == stream[i]
                actions == tasks[e.task_id].actions
            IN  /\ e.event_number = Position(actions, e.action)
                /\ e.prev_action = IF e.event_number > 1
                                   THEN actions[e.event_number - 1].id ELSE 0
        /\ \A i, j \in DOMAIN stream :
            (i # j /\ stream[i].task_id = stream[j].task_id) =>
                stream[i].event_number # stream[j].event_number

\* C28: the episode of a task never holds two events named end, nor an event
\* behind an end event, however the record_action requests interleave.
C28_EndIsLast ==
    \A id \in DOMAIN tasks :
        \A i \in DOMAIN tasks[id].actions :
            tasks[id].actions[i].name = "end" => i = Len(tasks[id].actions)

\* C29: the envelopes of a task are published with increasing event_number:
\* each is greater than that of every envelope published before it for the
\* task, also after an end event that replaced a mouse_move and after
\* delete_all_actions.
C29_EventNumberIncreases ==
    \A i, j \in DOMAIN stream :
        (i < j /\ stream[i].task_id = stream[j].task_id) =>
            stream[i].event_number < stream[j].event_number

\* C30: a record_action whose envelope could not be appended to the stream is
\* answered as a success and its event stays in the episode.
C30_PublishFailureAbsorbed ==
    (/\ resp.op = "record_action"
     /\ resp.events # <<>>
     /\ \A i \in DOMAIN stream : stream[i].action # resp.events[1])
    => /\ resp.code = 200
       /\ resp.events[1] \in ActionIds(tasks[resp.task_id].actions)

\* C31: a save of a remote task whose probe failed with anything but a 404
\* raises to the caller after the probe: no POST and no PUT follows the GET.
C31_ProbeFailureSurfaces ==
    (resp.op = "save_remote" /\ resp.data.answer = "failed") =>
        /\ resp.code = Raised
        /\ Len(resp.events) = 1

\* The calls on a remote task object.
RemoteOps ==
    {"task_init_remote", "save_remote", "ensure_thread_remote"}
        \cup DOMAIN RemoteCalls

\* C32: constructing a remote task and every mutating call on it leave the
\* caller's own store as it was, the pending_reviewers table included, and
\* the construction returns, also when review requirements are given.
C32_RemoteLeavesStore ==
    [][resp'.op \in RemoteOps =>
        /\ tasks' = tasks
        /\ pending' = pending
        /\ (resp'.op = "task_init_remote" => resp'.code = Returned)]_vars

\* The observable fields of a task: its projection without the version.
Observable(task) == [ToV1(task) EXCEPT !.version = NoVersion]

\* C33: a save or an update of a stored task leaves its version as it was
\* iff no observable field of the task differs from what was stored: a
\* second save of an unchanged task keeps the version, a save after a change
\* gives another one.
C33_VersionFollowsChange ==
    [][(resp'.op \in {"save", "update"} /\ resp'.code = Returned) =>
        LET id == resp'.task_id
        IN  (tasks'[id].version = tasks[id].version)
                <=> (Observable(tasks'[id]) = Observable(tasks[id]))]_vars

\* C34: the row a save writes does not depend on the token of the object:
\* for a stored task and any two tokens, saving the object with the one and
\* saving it with the other write the same row, version column included, and
\* no stored row holds a token.
C34_RowHidesToken ==
    \A id \in DOMAIN tasks :
        /\ tasks[id].auth_token = None
        /\ \A a, b \in Tokens :
            ToRecord(Save(id, WithToken(tasks[id], a))) =
                ToRecord(Save(id, WithToken(tasks[id], b)))

\* The calls of get_encryption_key that have returned.
KeysObtained == {r \in inflight : r.pc = "returned"}

\* C35: every call of get_encryption_key that returned, in whichever
\* process and however the calls interleaved, returned the same key, so a
\* device encrypted under the key of one call decrypts under the key of any
\* other.
C35_OneKey ==
    \A r, q \in KeysObtained :
        /\ r.key = q.key
        /\ DecryptDevice(EncryptDevice("device", r.key), q.key) = <<"device", None>>

\* C36: setting a label or storing a prompt on one object changes the labels
\* and the prompts of no other Task or TaskTemplate, and an object is
\* constructed with collections that no other object refers to.
C36_NoSharedCollections ==
    [][/\ resp'.op \in {"set_label", "store_prompt"} =>
            \A j \in DOMAIN heap.objects \ {resp'.task_id} :
                /\ LabelsOf(heap', j) = LabelsOf(heap, j)
                /\ PromptsOf(heap', j) = PromptsOf(heap, j)
       /\ resp'.op = "construct" =>
            \A j \in DOMAIN heap.objects :
                heap'.objects[resp'.task_id].labels # heap.objects[j].labels]_vars

\* The reviews of a stored annotation that are by this reviewer and type.
ReviewsBy(reviews, reviewer, reviewer_type) ==
    {i \in DOMAIN reviews : ReviewMatches(reviews[i], reviewer, reviewer_type)}

\* C37: every stored annotation holds at most one review per (reviewer,
\* reviewer_type), whoever the requests named as reviewer: a review_annotation
\* for a reviewer that has a review updates it and adds none.
C37_AnnotationUpsert ==
    \A slot \in Slots :
        \A i, j \in DOMAIN AnnotationAt(slot).reviews :
            ReviewMatches(AnnotationAt(slot).reviews[i],
                          AnnotationAt(slot).reviews[j].reviewer,
                          AnnotationAt(slot).reviews[j].reviewer_type) => i = j

\* C39: a create_annotation or review_annotation that succeeds for the task
\* of its path writes to that task alone: the event (and the annotation) it
\* changes is in the episode of that task, so no task the principal is not
\* authorised for is changed.
C39_AnnotatesOwnEpisode ==
    [][(resp'.op \in {"create_annotation", "review_annotation"}
            /\ resp'.code = 200) =>
        /\ resp'.data.action_id \in ActionIds(tasks[resp'.task_id].actions)
        /\ \A t \in DOMAIN tasks :
            tasks'[t] # tasks[t] =>
                /\ t = resp'.task_id
                /\ tasks[t].owner_id \in TaskOwners(resp'.user, MutateRoles)]_vars

\* The tasks that were created and are no longer stored.
Deleted == (1..(nextId - 1)) \ DOMAIN tasks

\* C38: no row of pending_reviewers names a deleted task: pending_reviewers
\* of a deleted task lists nobody and pending_reviews of no party returns its
\* id.
C38_NoRowsOfDeleted ==
    \A id \in Deleted :
        /\ PendingUsers(id) = {} /\ PendingAgents(id) = {}
        /\ \A r \in pending :
            /\ id \notin PendingReviewsOfUser(r.user_id)
            /\ id \notin PendingReviewsOfAgent(r.agent_id)

====
